---------------------------- MODULE Spec2Model ----------------------------
(***************************************************************************)
(* A model of pyrealm.pmodel.subdaily: the memory_effect filter, the       *)
(* construction of SubdailyPModel and SubdailyPModel_JAMES and the         *)
(* function convert_pmodel_to_subdaily; and of calc_soilmstress_stocker of *)
(* pyrealm.pmodel.functions.                                               *)
(*                                                                         *)
(* Numbers.  A float is modelled as an exact rational <<n, d>> in lowest   *)
(* terms with d > 0; the missing value numpy.nan is <<0, 0>>.  Arithmetic  *)
(* on a missing value gives a missing value, as in IEEE arithmetic.        *)
(* Infinities and rounding are outside the model.                          *)
(*                                                                         *)
(* Arrays.  An array with time as the first axis is a sequence of slices;  *)
(* a slice is a sequence of elements (the flattened trailing dimensions).  *)
(* The absent argument None is the empty sequence <<>>.                    *)
(***************************************************************************)
EXTENDS Integers, Sequences, FiniteSets, TLC

\* ------------------------------------------------------------------------
\* Bounds of the model
\* ------------------------------------------------------------------------

\* Longest series (first axis) with one element per slice.
MaxLen == 3

\* Longest series (first axis) with two elements per slice.
MaxLen2D == 2

\* ------------------------------------------------------------------------
\* Float arithmetic
\* ------------------------------------------------------------------------

NaN == <<0, 0>>

isnan(x) == x[2] = 0

Abs(n) == IF n < 0 THEN -n ELSE n

RECURSIVE GCD(_, _)
GCD(a, b) == IF b = 0 THEN a ELSE GCD(b, a % b)

\* The rational n/d (d > 0) in lowest terms.
Rat(n, d) ==
    LET g == GCD(Abs(n), d)
    IN  IF n < 0 THEN << -(Abs(n) \div g), d \div g >> ELSE << n \div g, d \div g >>

\* x * y
Mul(x, y) == IF isnan(x) \/ isnan(y) THEN NaN ELSE Rat(x[1] * y[1], x[2] * y[2])

\* x + y
Add(x, y) ==
    IF isnan(x) \/ isnan(y) THEN NaN ELSE Rat(x[1] * y[2] + y[1] * x[2], x[2] * y[2])

\* x - y
Sub(x, y) ==
    IF isnan(x) \/ isnan(y) THEN NaN ELSE Rat(x[1] * y[2] - y[1] * x[2], x[2] * y[2])

\* x <= y, false when either is missing
Leq(x, y) == ~isnan(x) /\ ~isnan(y) /\ x[1] * y[2] <= y[1] * x[2]

One == Rat(1, 1)

Zero == Rat(0, 1)

\* ------------------------------------------------------------------------
\* memory_effect
\* ------------------------------------------------------------------------

None == <<>>

\* The outcome of a call: it returned `value`, or raised `error`.
NotCalled == [kind |-> "none", value |-> <<>>, error |-> <<>>]

Returned(v) == [kind |-> "returned", value |-> v, error |-> <<>>]

Raised(type, msg) == [kind |-> "raised", value |-> <<>>, error |-> <<type, msg>>]

\* A mutant of nan_present: only the first element of each slice is inspected.
nan_present_first_element(values) ==
    \E t \in 1..Len(values) : isnan(values[t][1])

\* np.any(np.isnan(values))
nan_present(values) ==
    \E t \in 1..Len(values) : \E j \in 1..Len(values[t]) : isnan(values[t][j])

\* A mutant of weighted_slice: the weight of the previous realised value is
\* not reduced, so the weights do not sum to one.
weighted_slice_unnormalised(R, O, alpha) ==
    [j \in 1..Len(O) |-> Add(R[j], Mul(O[j], alpha))]

\* A mutant of weighted_slice: alpha weighs the previous realised value.
weighted_slice_alpha_on_previous(R, O, alpha) ==
    [j \in 1..Len(O) |-> Add(Mul(R[j], alpha), Mul(O[j], Sub(One, alpha)))]

\* R * (1 - alpha) + O * alpha, elementwise on two slices
weighted_slice(R, O, alpha) ==
    [j \in 1..Len(O) |-> Add(Mul(R[j], Sub(One, alpha)), Mul(O[j], alpha))]

\* A mutant of initial_slice: the seed is taken as the first realised value.
initial_slice_seed_unblended(values, previous_values, alpha) ==
    IF previous_values = None THEN values[1] ELSE previous_values

\* A mutant of initial_slice: the seed is ignored.
initial_slice_seed_ignored(values, previous_values, alpha) == values[1]

\* memory_values[0]
initial_slice(values, previous_values, alpha) ==
    IF previous_values = None
    THEN values[1]
    ELSE weighted_slice(previous_values, values[1], alpha)

\* A mutant of plain_step: the weights of the two terms are exchanged.
plain_step_weights_swapped(prev, curr, alpha) ==
    weighted_slice(curr, prev, alpha)

\* One pass of the loop over data with no missing values.
plain_step(prev, curr, alpha) == weighted_slice(prev, curr, alpha)

\* A mutant of holdover_step: a missing previous value is weighted like any
\* other, so the chain never restarts.
holdover_step_no_restart(prev, curr, alpha) ==
    LET blend == weighted_slice(prev, curr, alpha)
    IN  [j \in 1..Len(curr) |-> IF isnan(curr[j]) THEN prev[j] ELSE blend[j]]

\* One pass of the loop that handles missing data, elementwise np.where.
holdover_step(prev, curr, alpha) ==
    LET prev_nan == [j \in 1..Len(curr) |-> isnan(prev[j])]
        curr_nan == [j \in 1..Len(curr) |-> isnan(curr[j])]
        blend    == weighted_slice(prev, curr, alpha)
    IN  [j \in 1..Len(curr) |->
            IF prev_nan[j] THEN curr[j]
            ELSE IF curr_nan[j] THEN prev[j] ELSE blend[j]]

\* A mutant of plain_loop: the previous optimal value is weighted, not the
\* previous realised value.
RECURSIVE plain_loop_previous_optimal(_, _, _, _)
plain_loop_previous_optimal(memory_values, values, alpha, idx) ==
    IF idx > Len(values)
    THEN memory_values
    ELSE plain_loop_previous_optimal(
            Append(memory_values, plain_step(values[idx - 1], values[idx], alpha)),
            values, alpha, idx + 1)

\* for idx in range(1, len(memory_values)) over data with no missing values;
\* idx counts from 1, so the loop starts at 2.
RECURSIVE plain_loop(_, _, _, _)
plain_loop(memory_values, values, alpha, idx) ==
    IF idx > Len(values)
    THEN memory_values
    ELSE plain_loop(
            Append(memory_values, plain_step(memory_values[idx - 1], values[idx], alpha)),
            values, alpha, idx + 1)

\* for idx in range(1, len(memory_values)) handling missing data
RECURSIVE holdover_loop(_, _, _, _)
holdover_loop(memory_values, values, alpha, idx) ==
    IF idx > Len(values)
    THEN memory_values
    ELSE holdover_loop(
            Append(memory_values, holdover_step(memory_values[idx - 1], values[idx], alpha)),
            values, alpha, idx + 1)

\* A mutant of memory_effect: without holdover a missing value in the seed
\* is rejected like one in values.
memory_effect_seed_checked(values, previous_values, alpha, allow_holdover) ==
    LET seeded == IF previous_values = None THEN values
                  ELSE <<previous_values>> \o values
    IN  IF nan_present(seeded) /\ ~allow_holdover
        THEN Raised("ValueError", "Missing values in data passed to memory_effect")
        ELSE LET first == <<initial_slice(values, previous_values, alpha)>>
             IN  IF ~nan_present(values)
                 THEN Returned(plain_loop(first, values, alpha, 2))
                 ELSE Returned(holdover_loop(first, values, alpha, 2))

\* memory_effect(values, previous_values, alpha, allow_holdover)
memory_effect(values, previous_values, alpha, allow_holdover) ==
    IF nan_present(values) /\ ~allow_holdover
    THEN Raised("ValueError", "Missing values in data passed to memory_effect")
    ELSE LET first == <<initial_slice(values, previous_values, alpha)>>
         IN  IF ~nan_present(values)
             THEN Returned(plain_loop(first, values, alpha, 2))
             ELSE Returned(holdover_loop(first, values, alpha, 2))

\* ------------------------------------------------------------------------
\* calc_soilmstress_stocker
\* ------------------------------------------------------------------------

\* x / y for y # 0; an infinite quotient is outside the model.
Div(x, y) ==
    IF isnan(x) \/ isnan(y) \/ y[1] = 0 THEN NaN
    ELSE IF y[1] < 0 THEN Rat(-(x[1] * y[2]), x[2] * (-y[1]))
    ELSE Rat(x[1] * y[2], x[2] * y[1])

\* x ** 2
Square(x) == Mul(x, x)

\* np.clip(x, lo, hi) on one float: a missing value stays missing.
clip(x, lo, hi) ==
    IF isnan(x) THEN NaN
    ELSE IF Leq(x, lo) THEN lo
    ELSE IF Leq(hi, x) THEN hi
    ELSE x

\* The soil moisture constants of PModelConst(): a = 0 and b = 0.7330, with
\* theta0 = 0 and thetastar = 0.6.
PModelConst ==
    [soilmstress_theta0 |-> Rat(0, 1), soilmstress_thetastar |-> Rat(3, 5),
     soilmstress_a |-> Rat(0, 1), soilmstress_b |-> Rat(733, 1000)]

\* A mutant of calc_soilmstress_stocker: the values above thetastar are not
\* filtered.
calc_soilmstress_stocker_unfiltered(soil_moisture, mean_alpha, const) ==
    LET y0 == Add(const.soilmstress_a, Mul(const.soilmstress_b, mean_alpha))
        beta == Div(Sub(One, y0),
                    Square(Sub(const.soilmstress_theta0, const.soilmstress_thetastar)))
    IN  Returned(clip(Sub(One, Mul(beta, Square(Sub(soil_moisture,
                                                     const.soilmstress_thetastar)))),
                      Zero, One))

\* calc_soilmstress_stocker(soilm, meanalpha, pmodel_const) on one element
calc_soilmstress_stocker(soil_moisture, mean_alpha, const) ==
    LET y0 == Add(const.soilmstress_a, Mul(const.soilmstress_b, mean_alpha))
        beta == Div(Sub(One, y0),
                    Square(Sub(const.soilmstress_theta0, const.soilmstress_thetastar)))
        quadratic ==
            Sub(One, Mul(beta, Square(Sub(soil_moisture, const.soilmstress_thetastar))))
        filtered ==
            IF Leq(soil_moisture, const.soilmstress_thetastar) THEN quadratic ELSE One
    IN  Returned(clip(filtered, Zero, One))

\* ------------------------------------------------------------------------
\* Inputs of memory_effect
\* ------------------------------------------------------------------------

\* Element values of a one-element slice.
Scalars == {NaN, Rat(1, 1), Rat(2, 1), Rat(3, 1)}

\* Element values of a two-element slice.
Scalars2D == {NaN, Rat(1, 1), Rat(2, 1)}

\* Seed elements of a two-element seed.
SeedScalars2D == {NaN, Rat(2, 1)}

\* The weights alpha: the two ends of [0, 1], a symmetric and an asymmetric one.
Alphas == {Rat(0, 1), Rat(1, 4), Rat(1, 2), Rat(1, 1)}

Slices1D == {<<v>> : v \in Scalars}

Slices2D == {<<v, w>> : v \in Scalars2D, w \in Scalars2D}

ValuesInputs ==
    (UNION {[1..n -> Slices1D] : n \in 1..MaxLen})
        \cup (UNION {[1..n -> Slices2D] : n \in 1..MaxLen2D})

\* The seeds that fit a series: None, or one slice of the shape of values[0].
SeedInputs(values) ==
    {None} \cup
        (IF Len(values[1]) = 1
         THEN Slices1D
         ELSE {<<v, w>> : v \in SeedScalars2D, w \in SeedScalars2D})

\* ------------------------------------------------------------------------
\* State
\* ------------------------------------------------------------------------

VARIABLES
    values,           \* the caller's array of optimal values
    previous_values,  \* the caller's seed, or None
    alpha,            \* the weight of the most recent observation
    allow_holdover,   \* the holdover flag
    result,           \* the outcome of memory_effect on the whole series
    split,            \* the length of the first chunk of a chunked fit, or 0
    first_chunk,      \* the outcome of memory_effect on the first chunk
    second_chunk,     \* the outcome of memory_effect on the second chunk
    args,             \* the arguments of the constructor being run
    pc,               \* the place of the constructor in its code
    error,            \* the exception the constructor raised, or <<>>
    log,              \* the calls made to the collaborators, in order
    attrs,            \* the attributes assigned on self so far
    optimal,          \* the daily optimal xi, vcmax25 and jmax25
    realised,         \* the outcomes of the memory_effect calls, in order
    outputs,          \* the subdaily Ac, Aj and gpp, or <<>>
    collab,           \* what the collaborators answered, by call
    constructions,    \* the number of the construction under way
    first,            \* the outcome of the first construction, or <<>>
    conversion,       \* the call of convert_pmodel_to_subdaily, or <<>>
    soilm,            \* relative soil moisture
    meanalpha,        \* mean ratio of actual over potential evapotranspiration
    pmodel_const,     \* the soil moisture constants of PModelConst
    outstress         \* the outcome of calc_soilmstress_stocker

\* The state of the memory_effect calls.
mvars ==
    <<values, previous_values, alpha, allow_holdover, result, split, first_chunk,
      second_chunk>>

\* The state of a constructor.
evars ==
    <<args, pc, error, log, attrs, optimal, realised, outputs, collab,
      constructions, first, conversion>>

\* The state of the calls of calc_soilmstress_stocker.
svars == <<soilm, meanalpha, pmodel_const, outstress>>

vars == <<mvars, evars, svars>>

\* No constructor is running.
EngineIdle ==
    /\ args = <<>>
    /\ pc = "idle"
    /\ error = <<>>
    /\ log = <<>>
    /\ attrs = {}
    /\ optimal = <<>>
    /\ realised = <<>>
    /\ outputs = <<>>
    /\ collab = <<>>
    /\ constructions = 0
    /\ first = <<>>
    /\ conversion = <<>>

\* No call of calc_soilmstress_stocker is made.
SoilIdle ==
    /\ soilm = Zero
    /\ meanalpha = One
    /\ pmodel_const = <<>>
    /\ outstress = NotCalled

Init ==
    /\ values \in ValuesInputs
    /\ previous_values \in SeedInputs(values)
    /\ alpha \in Alphas
    /\ allow_holdover \in BOOLEAN
    /\ result = NotCalled
    /\ split = 0
    /\ first_chunk = NotCalled
    /\ second_chunk = NotCalled
    /\ EngineIdle
    /\ SoilIdle

\* A mutant of CallMemoryEffect: the result is built in the caller's array.
CallMemoryEffectInPlace ==
    /\ result' = memory_effect(values, previous_values, alpha, allow_holdover)
    /\ values' = IF result'.kind = "returned" THEN result'.value ELSE values
    /\ UNCHANGED <<previous_values, alpha, allow_holdover, split, first_chunk,
                   second_chunk, evars, svars>>

\* A call of memory_effect on the whole series; it may be repeated.
CallMemoryEffect ==
    /\ result' = memory_effect(values, previous_values, alpha, allow_holdover)
    /\ UNCHANGED <<values, previous_values, alpha, allow_holdover, split,
                   first_chunk, second_chunk, evars, svars>>

\* A fit in chunks: memory_effect on values[0..k-1], with the caller's seed.
FitFirstChunk ==
    /\ result.kind = "returned"
    /\ first_chunk.kind = "none"
    /\ \E k \in 1..(Len(values) - 1) :
          /\ split' = k
          /\ first_chunk' =
                memory_effect(SubSeq(values, 1, k), previous_values, alpha,
                              allow_holdover)
    /\ UNCHANGED <<values, previous_values, alpha, allow_holdover, result,
                   second_chunk, evars, svars>>

\* A fit in chunks: memory_effect on the rest of the series, seeded with the
\* last realised slice of the first chunk.
FitSecondChunk ==
    /\ first_chunk.kind = "returned"
    /\ second_chunk.kind = "none"
    /\ second_chunk' =
          memory_effect(SubSeq(values, split + 1, Len(values)),
                        first_chunk.value[Len(first_chunk.value)], alpha,
                        allow_holdover)
    /\ UNCHANGED <<values, previous_values, alpha, allow_holdover, result, split,
                   first_chunk, evars, svars>>

Next ==
    \/ CallMemoryEffect
    \/ FitFirstChunk
    \/ FitSecondChunk

Spec == Init /\ [][Next]_vars

\* ------------------------------------------------------------------------
\* The constructors: collaborators and inputs
\* ------------------------------------------------------------------------

\* The method names the registries are known to hold.
OPTIMAL_CHI_CLASS_REGISTRY == {"prentice14"}

QUANTUM_YIELD_CLASS_REGISTRY == {"temperature", "fixed"}

ARRHENIUS_METHOD_REGISTRY == {"simple", "kattge_knorr"}

\* Lengths of the first axis of a subdaily series.
Lengths == {9, 10}

\* Three seeds of the shape of one time slice of the forcing, for xi,
\* vcmax25 and jmax25, and a seed of another shape.
Seeds == <<<<Rat(1, 1)>>, <<Rat(2, 1)>>, <<Rat(3, 1)>>>>

BadSeed == <<Rat(2, 1), Rat(2, 1)>>

\* previous_realised: None, three seeds of the right shape, or three seeds
\* one of which has another shape.
PreviousRealisedInputs ==
    {None, Seeds} \cup {[Seeds EXCEPT ![i] = BadSeed] : i \in 1..3}

\* The daily optimal values the daily P Model may give: xi is always
\* estimable, vcmax and jmax are missing together.
DailyOptima ==
    {[xi |-> <<<<Rat(1, 1)>>, <<Rat(2, 1)>>>>,
      vcmax25 |-> <<<<v>>, <<Rat(3, 1)>>>>,
      jmax25 |-> <<<<v>>, <<Rat(1, 1)>>>>] : v \in {NaN, Rat(2, 1)}}

\* The kinds of fill that fill_daily_to_subdaily knows.
FillKinds == {"previous", "linear"}

\* The values an assimilation stream may take at one timestamp: missing,
\* negative or positive.
StreamValues == {NaN, Rat(-1, 1), Rat(2, 1)}

\* The subdaily series subdaily_Ac and subdaily_Aj may be: they are products
\* with the multipliers mc and mj of the optimal chi collaborator.
SubdailySeries == [1..2 -> {<<v>> : v \in StreamValues}]

SubdailyPModelArgs ==
    [cls : {"SubdailyPModel"},
     n_datetimes : Lengths,
     n_env_first_axis : Lengths,
     n_fapar : Lengths,
     n_ppfd : Lengths,
     include : BOOLEAN,
     method_optchi : {"prentice14", "nonesuch"},
     method_kphio : {"temperature", "nonesuch"},
     method_arrhenius : {"simple", "nonesuch"},
     reference_kphio_size : {1, 2},
     alpha : {Rat(1, 15)},
     allow_holdover : BOOLEAN,
     fill_kind : FillKinds,
     previous_realised : PreviousRealisedInputs,
     vpd_scaler : {FALSE},
     k_c_molmass : {Rat(120107, 10000)}]

\* np.timedelta64(n, unit)
timedelta64(n, unit) == <<n, unit>>

\* The anchors fill_from of SubdailyPModel_JAMES: none, or noon.
FillFroms == {None, timedelta64(12, "h")}

SubdailyPModel_JAMESArgs ==
    [cls : {"SubdailyPModel_JAMES"},
     n_datetimes : Lengths,
     n_env_first_axis : Lengths,
     n_fapar : Lengths,
     n_ppfd : Lengths,
     include : BOOLEAN,
     method_optchi : {"prentice14"},
     method_kphio : {"temperature"},
     method_arrhenius : {"simple"},
     reference_kphio_size : {1},
     alpha : {Rat(1, 15)},
     allow_holdover : BOOLEAN,
     fill_kind : FillKinds,
     previous_realised : {None},
     vpd_scaler : BOOLEAN,
     fill_from : FillFroms,
     k_c_molmass : {Rat(120107, 10000)}]

\* fs_scaler.get_daily_means(series): on a series as long as the datetimes
\* it returns the daily means (TRUE); what it does with any other series is
\* not given, so it may return or raise (FALSE).
get_daily_means(n_series, n_datetimes) ==
    IF n_series = n_datetimes THEN {TRUE} ELSE BOOLEAN

\* The collaborators are functions of their arguments: the answers to a call
\* are those in `answers` when it is made for the first time, and the answer
\* given before when the same call is made again.
Answers(call, answers) ==
    IF call \in DOMAIN collab THEN {collab[call]} ELSE answers

\* The answers given so far, with the answer to `call`.
Answered(memo, call, answer) ==
    IF call \in DOMAIN memo THEN memo ELSE (call :> answer) @@ memo

\* numpy broadcasting of the subdaily arrays fapar, ppfd and kphio.kphio,
\* whose first axes are longer than 1: they must be equally long.
broadcastable(a) ==
    /\ a.n_fapar = a.n_ppfd
    /\ a.n_fapar = a.n_env_first_axis

\* np.minimum(x, y) on two floats: a missing value is propagated.
minimum(x, y) ==
    IF isnan(x) \/ isnan(y) THEN NaN ELSE IF Leq(x, y) THEN x ELSE y

\* A mutant of gpp: negative values are clipped to zero.
gpp_clipped(subdaily_Aj, subdaily_Ac, k) ==
    [t \in 1..Len(subdaily_Aj) |->
        [j \in 1..Len(subdaily_Aj[t]) |->
            LET m == Mul(minimum(subdaily_Aj[t][j], subdaily_Ac[t][j]), k)
            IN  IF Leq(m, Zero) THEN Zero ELSE m]]

\* np.minimum(self.subdaily_Aj, self.subdaily_Ac) * k_c_molmass, elementwise
gpp(subdaily_Aj, subdaily_Ac, k) ==
    [t \in 1..Len(subdaily_Aj) |->
        [j \in 1..Len(subdaily_Aj[t]) |->
            Mul(minimum(subdaily_Aj[t][j], subdaily_Ac[t][j]), k)]]

Raise(type, msg) ==
    /\ pc' = "raised"
    /\ error' = <<type, msg>>

InitEngine ==
    /\ values = <<<<One>>>>
    /\ previous_values = None
    /\ alpha = One
    /\ allow_holdover = FALSE
    /\ result = NotCalled
    /\ split = 0
    /\ first_chunk = NotCalled
    /\ second_chunk = NotCalled
    /\ args \in SubdailyPModelArgs \cup SubdailyPModel_JAMESArgs
    /\ pc = "start"
    /\ error = <<>>
    /\ log = <<>>
    /\ attrs = {}
    /\ optimal = <<>>
    /\ realised = <<>>
    /\ outputs = <<>>
    /\ collab = <<>>
    /\ constructions = 1
    /\ first = <<>>
    /\ conversion = <<>>
    /\ SoilIdle

\* What no step of a constructor changes: the other calls, the arguments of
\* the constructor and the outcome of an earlier construction.
given == <<mvars, svars, args, constructions, first, conversion>>

\* ------------------------------------------------------------------------
\* SubdailyPModel.__init__
\* ------------------------------------------------------------------------

\* A mutant of CheckCongruence: the lengths are never compared.
CheckCongruenceSkipped ==
    /\ args.cls = "SubdailyPModel"
    /\ pc = "start"
    /\ pc' = "check_include"
    /\ UNCHANGED <<given, error, log, attrs, optimal, realised, outputs, collab>>

\* The length of fs_scaler.datetimes against the first axis of env.tc.
CheckCongruence ==
    /\ args.cls = "SubdailyPModel"
    /\ pc = "start"
    /\ IF args.n_datetimes # args.n_env_first_axis
       THEN Raise("ValueError", "env and fs_scaler do not have congruent dimensions")
       ELSE pc' = "check_include" /\ UNCHANGED error
    /\ UNCHANGED <<given, log, attrs, optimal, realised, outputs, collab>>

\* A mutant of CheckInclude: the window is used whether or not it is set.
CheckIncludeSkipped ==
    /\ args.cls = "SubdailyPModel"
    /\ pc = "check_include"
    /\ pc' = "validate_methods"
    /\ attrs' = attrs \cup {"datetimes", "env"}
    /\ UNCHANGED <<given, error, log, optimal, realised, outputs, collab>>

\* Has a set method been run on fs_scaler; then self.datetimes and self.env.
CheckInclude ==
    /\ args.cls = "SubdailyPModel"
    /\ pc = "check_include"
    /\ IF ~args.include
       THEN /\ Raise("ValueError", "The daily sampling window has not been set on fs_scaler")
            /\ UNCHANGED attrs
       ELSE /\ pc' = "validate_methods"
            /\ attrs' = attrs \cup {"datetimes", "env"}
            /\ UNCHANGED error
    /\ UNCHANGED <<given, log, optimal, realised, outputs, collab>>

\* A mutant of ValidateMethods: the names are stored without being looked up.
ValidateMethodsSkipped ==
    /\ args.cls = "SubdailyPModel"
    /\ pc = "validate_methods"
    /\ pc' = "daily_environment"
    /\ attrs' = attrs \cup {"method_optchi", "c4", "method_kphio", "method_arrhenius"}
    /\ UNCHANGED <<given, error, log, optimal, realised, outputs, collab>>

\* A mutant of ValidateMethods: the Arrhenius method is looked up before the
\* other two.
ValidateMethodsArrheniusFirst ==
    /\ args.cls = "SubdailyPModel"
    /\ pc = "validate_methods"
    /\ IF args.method_arrhenius \notin ARRHENIUS_METHOD_REGISTRY
       THEN /\ Raise("ValueError", "Unknown Arrhenius scaling method")
            /\ attrs' = attrs \cup {"method_arrhenius"}
       ELSE IF args.method_optchi \notin OPTIMAL_CHI_CLASS_REGISTRY
       THEN /\ Raise("ValueError", "Unknown optimal chi estimation method")
            /\ UNCHANGED attrs
       ELSE IF args.method_kphio \notin QUANTUM_YIELD_CLASS_REGISTRY
       THEN /\ Raise("ValueError", "Unknown kphio calculation method")
            /\ attrs' = attrs \cup {"method_optchi", "c4"}
       ELSE /\ pc' = "daily_environment"
            /\ attrs' = attrs \cup {"method_optchi", "c4", "method_kphio",
                                    "method_arrhenius"}
            /\ UNCHANGED error
    /\ UNCHANGED <<given, log, optimal, realised, outputs, collab>>

\* The three method names against their registries, in the order optimal
\* chi, kphio, Arrhenius.
ValidateMethods ==
    /\ args.cls = "SubdailyPModel"
    /\ pc = "validate_methods"
    /\ IF args.method_optchi \notin OPTIMAL_CHI_CLASS_REGISTRY
       THEN /\ Raise("ValueError", "Unknown optimal chi estimation method")
            /\ UNCHANGED attrs
       ELSE IF args.method_kphio \notin QUANTUM_YIELD_CLASS_REGISTRY
       THEN /\ Raise("ValueError", "Unknown kphio calculation method")
            /\ attrs' = attrs \cup {"method_optchi", "c4"}
       ELSE IF args.method_arrhenius \notin ARRHENIUS_METHOD_REGISTRY
       THEN /\ Raise("ValueError", "Unknown Arrhenius scaling method")
            /\ attrs' = attrs \cup {"method_optchi", "c4", "method_kphio"}
       ELSE /\ pc' = "daily_environment"
            /\ attrs' = attrs \cup {"method_optchi", "c4", "method_kphio",
                                    "method_arrhenius"}
            /\ UNCHANGED error
    /\ UNCHANGED <<given, log, optimal, realised, outputs, collab>>

\* A mutant of DailyAcclimationModel: the daily P Model is always given the
\* method and the reference of the subdaily kphio.
DailyAcclimationModelSameMethod ==
    /\ args.cls = "SubdailyPModel"
    /\ pc = "daily_environment"
    /\ log' = log
          \o <<<<"get_daily_means", "tc">>, <<"get_daily_means", "co2">>,
               <<"get_daily_means", "patm">>, <<"get_daily_means", "vpd">>,
               <<"PModelEnvironment", "daily">>,
               <<"QuantumYield", args.method_kphio>>,
               <<"PModel", args.method_kphio, "reference_kphio">>>>
    /\ attrs' = attrs \cup {"kphio", "pmodel_acclim"}
    /\ pc' = "daily_light"
    /\ UNCHANGED <<given, error, optimal, realised, outputs, collab>>

\* 1) The daily acclimation environment, the subdaily kphio, the choice of
\* the daily kphio method and reference, and 2) the daily P Model.
DailyAcclimationModel ==
    /\ args.cls = "SubdailyPModel"
    /\ pc = "daily_environment"
    /\ log' = log
          \o <<<<"get_daily_means", "tc">>, <<"get_daily_means", "co2">>,
               <<"get_daily_means", "patm">>, <<"get_daily_means", "vpd">>,
               <<"PModelEnvironment", "daily">>,
               <<"QuantumYield", args.method_kphio>>>>
          \o (IF args.reference_kphio_size > 1
              THEN <<<<"get_daily_means", "kphio">>,
                     <<"PModel", "fixed", "daily mean kphio">>>>
              ELSE <<<<"PModel", args.method_kphio, "reference_kphio">>>>)
    /\ attrs' = attrs \cup {"kphio", "pmodel_acclim"}
    /\ pc' = "daily_light"
    /\ UNCHANGED <<given, error, optimal, realised, outputs, collab>>

\* 3) The daily means of ppfd and of fapar.
DailyLightMeans ==
    /\ args.cls = "SubdailyPModel"
    /\ pc = "daily_light"
    /\ \E ppfd_ok \in Answers("get_daily_means(ppfd)",
                              get_daily_means(args.n_ppfd, args.n_datetimes)) :
       \E fapar_ok \in Answers("get_daily_means(fapar)",
                               get_daily_means(args.n_fapar, args.n_datetimes)) :
          IF ~ppfd_ok
          THEN /\ log' = Append(log, <<"get_daily_means", "ppfd">>)
               /\ collab' = Answered(collab, "get_daily_means(ppfd)", FALSE)
               /\ Raise("Exception", "get_daily_means")
               /\ UNCHANGED attrs
          ELSE /\ log' = log \o <<<<"get_daily_means", "ppfd">>,
                                  <<"get_daily_means", "fapar">>>>
               /\ collab' = Answered(Answered(collab, "get_daily_means(ppfd)", TRUE),
                                     "get_daily_means(fapar)", fapar_ok)
               /\ IF ~fapar_ok
                  THEN /\ Raise("Exception", "get_daily_means")
                       /\ attrs' = attrs \cup {"ppfd_acclim"}
                  ELSE /\ attrs' = attrs \cup {"ppfd_acclim", "fapar_acclim"}
                       /\ pc' = "estimate_productivity"
                       /\ UNCHANGED error
    /\ UNCHANGED <<given, optimal, realised, outputs>>

\* A mutant of EstimateAndNormalise: the optimal vcmax and jmax are kept at
\* the daily temperature.
EstimateWithoutNormalising ==
    /\ args.cls = "SubdailyPModel"
    /\ pc = "estimate_productivity"
    /\ optimal' \in Answers("pmodel_acclim", DailyOptima)
    /\ collab' = Answered(collab, "pmodel_acclim", optimal')
    /\ log' = log \o <<<<"estimate_productivity", "daily">>>>
    /\ attrs' = attrs \cup {"vcmax25_opt", "jmax25_opt"}
    /\ pc' = "check_previous_realised"
    /\ UNCHANGED <<given, error, realised, outputs>>

\* 3) estimate_productivity and 4) the optimal vcmax and jmax at the
\* reference temperature; the daily P Model gives the optimal values.
EstimateAndNormalise ==
    /\ args.cls = "SubdailyPModel"
    /\ pc = "estimate_productivity"
    /\ optimal' \in Answers("pmodel_acclim", DailyOptima)
    /\ collab' = Answered(collab, "pmodel_acclim", optimal')
    /\ log' = log
          \o <<<<"estimate_productivity", "daily">>,
               <<"Arrhenius", args.method_arrhenius, "daily">>>>
    /\ attrs' = attrs \cup {"vcmax25_opt", "jmax25_opt"}
    /\ pc' = "check_previous_realised"
    /\ UNCHANGED <<given, error, realised, outputs>>

\* The shape of one time slice of the forcing, as a number of elements.
expected_shape == 1

\* A mutant of CheckPreviousRealised: fill_kind is not looked at.
CheckPreviousRealisedAnyFill ==
    /\ args.cls = "SubdailyPModel"
    /\ pc = "check_previous_realised"
    /\ IF /\ args.previous_realised # None
          /\ ~(/\ Len(args.previous_realised[1]) = expected_shape
               /\ Len(args.previous_realised[2]) = expected_shape
               /\ Len(args.previous_realised[3]) = expected_shape)
       THEN Raise("ValueError",
                  "previous_realised entries have wrong shape in Subdaily PModel")
       ELSE pc' = "memory_effect" /\ UNCHANGED error
    /\ UNCHANGED <<given, log, attrs, optimal, realised, outputs, collab>>

\* A mutant of CheckPreviousRealised: only the shape of the seed of xi is
\* compared.
CheckPreviousRealisedFirstSeed ==
    /\ args.cls = "SubdailyPModel"
    /\ pc = "check_previous_realised"
    /\ IF args.previous_realised # None /\ args.fill_kind # "previous"
       THEN Raise("NotImplementedError",
                  "Using previous_realised is only implemented for fill_kind = 'previous'")
       ELSE IF /\ args.previous_realised # None
               /\ Len(args.previous_realised[1]) # expected_shape
       THEN Raise("ValueError",
                  "previous_realised entries have wrong shape in Subdaily PModel")
       ELSE pc' = "memory_effect" /\ UNCHANGED error
    /\ UNCHANGED <<given, log, attrs, optimal, realised, outputs, collab>>

\* The checks of previous_realised.
CheckPreviousRealised ==
    /\ args.cls = "SubdailyPModel"
    /\ pc = "check_previous_realised"
    /\ IF args.previous_realised # None /\ args.fill_kind # "previous"
       THEN Raise("NotImplementedError",
                  "Using previous_realised is only implemented for fill_kind = 'previous'")
       ELSE IF /\ args.previous_realised # None
               /\ ~(/\ Len(args.previous_realised[1]) = expected_shape
                    /\ Len(args.previous_realised[2]) = expected_shape
                    /\ Len(args.previous_realised[3]) = expected_shape)
       THEN Raise("ValueError",
                  "previous_realised entries have wrong shape in Subdaily PModel")
       ELSE pc' = "memory_effect" /\ UNCHANGED error
    /\ UNCHANGED <<given, log, attrs, optimal, realised, outputs, collab>>

\* previous_xi_real, previous_vcmax25_real, previous_jmax25_real
previous_real(a, i) ==
    IF a.previous_realised # None THEN a.previous_realised[i] ELSE None

\* The outcomes of a sequence of calls, up to and with the first that raised.
RECURSIVE UntilRaised(_)
UntilRaised(calls) ==
    IF calls = <<>> THEN <<>>
    ELSE IF Head(calls).kind = "raised" THEN <<Head(calls)>>
    ELSE <<Head(calls)>> \o UntilRaised(Tail(calls))

\* 5) The realised daily values of xi, vcmax25 and jmax25.
RealisedValues ==
    /\ args.cls = "SubdailyPModel"
    /\ pc = "memory_effect"
    /\ LET calls ==
              UntilRaised(
                 <<memory_effect(optimal.xi, previous_real(args, 1), args.alpha,
                                 args.allow_holdover),
                   memory_effect(optimal.vcmax25, previous_real(args, 2), args.alpha,
                                 args.allow_holdover),
                   memory_effect(optimal.jmax25, previous_real(args, 3), args.alpha,
                                 args.allow_holdover)>>)
           last == calls[Len(calls)]
           keywords(i) ==
              [previous_values |-> previous_real(args, i), alpha |-> args.alpha,
               allow_holdover |-> args.allow_holdover]
       IN  /\ realised' = calls
           /\ log' = log \o SubSeq(<<<<"memory_effect", "xi", keywords(1)>>,
                                     <<"memory_effect", "vcmax25_opt", keywords(2)>>,
                                     <<"memory_effect", "jmax25_opt", keywords(3)>>>>,
                                   1, Len(calls))
           /\ attrs' = attrs \cup
                 {(<<"xi_real", "vcmax25_real", "jmax25_real">>)[i] :
                     i \in {i \in 1..Len(calls) : calls[i].kind = "returned"}}
           /\ IF last.kind = "raised"
              THEN Raise(last.error[1], last.error[2])
              ELSE pc' = "fill" /\ UNCHANGED error
    /\ UNCHANGED <<given, optimal, outputs, collab>>

\* A mutant of FillToSubdaily: the realised values of the last day are
\* written into the caller's seeds.
FillToSubdailyInPlace ==
    /\ args.cls = "SubdailyPModel"
    /\ pc = "fill"
    /\ log' = log
          \o <<<<"fill_daily_to_subdaily", "xi_real",
                 [previous_value |-> previous_real(args, 1)]>>,
               <<"fill_daily_to_subdaily", "vcmax25_real",
                 [previous_value |-> previous_real(args, 2)]>>,
               <<"fill_daily_to_subdaily", "jmax25_real",
                 [previous_value |-> previous_real(args, 3)]>>>>
    /\ \E kind \in Answers("fill_daily_to_subdaily.kind", FillKinds) :
          collab' = Answered(collab, "fill_daily_to_subdaily.kind", kind)
    /\ attrs' = attrs \cup {"subdaily_xi", "subdaily_vcmax25", "subdaily_jmax25"}
    /\ pc' = "assimilation"
    /\ args' = IF args.previous_realised = None THEN args
               ELSE [args EXCEPT !.previous_realised =
                        [i \in 1..3 |-> realised[i].value[Len(realised[i].value)]]]
    /\ UNCHANGED <<mvars, svars, constructions, first, conversion, error, optimal,
                   realised, outputs>>

\* A mutant of FillToSubdaily: the fill is given no seed.
FillToSubdailyUnseeded ==
    /\ args.cls = "SubdailyPModel"
    /\ pc = "fill"
    /\ log' = log
          \o <<<<"fill_daily_to_subdaily", "xi_real", [previous_value |-> None]>>,
               <<"fill_daily_to_subdaily", "vcmax25_real", [previous_value |-> None]>>,
               <<"fill_daily_to_subdaily", "jmax25_real", [previous_value |-> None]>>>>
    /\ \E kind \in Answers("fill_daily_to_subdaily.kind", FillKinds) :
          collab' = Answered(collab, "fill_daily_to_subdaily.kind", kind)
    /\ attrs' = attrs \cup {"subdaily_xi", "subdaily_vcmax25", "subdaily_jmax25"}
    /\ pc' = "assimilation"
    /\ UNCHANGED <<given, error, optimal, realised, outputs>>

\* 6) The realised values filled to the subdaily timescale; each call is
\* logged with the keyword arguments it is given.  No kind is given, so the
\* fill is of the kind fill_daily_to_subdaily takes when none is given.
FillToSubdaily ==
    /\ args.cls = "SubdailyPModel"
    /\ pc = "fill"
    /\ log' = log
          \o <<<<"fill_daily_to_subdaily", "xi_real",
                 [previous_value |-> previous_real(args, 1)]>>,
               <<"fill_daily_to_subdaily", "vcmax25_real",
                 [previous_value |-> previous_real(args, 2)]>>,
               <<"fill_daily_to_subdaily", "jmax25_real",
                 [previous_value |-> previous_real(args, 3)]>>>>
    /\ \E kind \in Answers("fill_daily_to_subdaily.kind", FillKinds) :
          collab' = Answered(collab, "fill_daily_to_subdaily.kind", kind)
    /\ attrs' = attrs \cup {"subdaily_xi", "subdaily_vcmax25", "subdaily_jmax25"}
    /\ pc' = "assimilation"
    /\ UNCHANGED <<given, error, optimal, realised, outputs>>

\* A mutant of RescaleAndAssimilate: an error of the assimilation is caught
\* and the engine is returned as it is.
RescaleAndAssimilateSwallowed ==
    /\ args.cls = "SubdailyPModel"
    /\ pc = "assimilation"
    /\ log' = log
          \o <<<<"Arrhenius", args.method_arrhenius, "subdaily">>,
               <<"OptimalChi", args.method_optchi>>,
               <<"estimate_chi", "subdaily_xi">>>>
          \o (IF broadcastable(args)
              THEN <<<<"np.minimum", "subdaily_Aj", "subdaily_Ac">>>> ELSE <<>>)
    /\ \E Ac \in Answers("subdaily_Ac", SubdailySeries) :
       \E Aj \in Answers("subdaily_Aj", SubdailySeries) :
          IF ~broadcastable(args)
          THEN /\ attrs' = attrs \cup {"subdaily_vcmax", "subdaily_jmax",
                                       "optimal_chi", "subdaily_Ac"}
               /\ outputs' = [subdaily_Ac |-> Ac]
               /\ collab' = Answered(collab, "subdaily_Ac", Ac)
          ELSE /\ attrs' = attrs \cup {"subdaily_vcmax", "subdaily_jmax",
                                       "optimal_chi", "subdaily_Ac", "subdaily_Aj",
                                       "gpp"}
               /\ outputs' = [subdaily_Ac |-> Ac, subdaily_Aj |-> Aj,
                              gpp |-> gpp(Aj, Ac, args.k_c_molmass)]
               /\ collab' = Answered(Answered(collab, "subdaily_Ac", Ac),
                                     "subdaily_Aj", Aj)
    /\ pc' = "done"
    /\ UNCHANGED <<given, error, optimal, realised>>

\* 7) Subdaily vcmax and jmax, 8) chi from the subdaily xi, then Ac, J, Aj
\* and GPP.  The product fapar * ppfd raises when the two cannot be
\* broadcast, after subdaily_Ac is set.
RescaleAndAssimilate ==
    /\ args.cls = "SubdailyPModel"
    /\ pc = "assimilation"
    /\ log' = log
          \o <<<<"Arrhenius", args.method_arrhenius, "subdaily">>,
               <<"OptimalChi", args.method_optchi>>,
               <<"estimate_chi", "subdaily_xi">>>>
          \o (IF broadcastable(args)
              THEN <<<<"np.minimum", "subdaily_Aj", "subdaily_Ac">>>> ELSE <<>>)
    /\ \E Ac \in Answers("subdaily_Ac", SubdailySeries) :
       \E Aj \in Answers("subdaily_Aj", SubdailySeries) :
          IF ~broadcastable(args)
          THEN /\ Raise("ValueError", "operands could not be broadcast together")
               /\ attrs' = attrs \cup {"subdaily_vcmax", "subdaily_jmax",
                                       "optimal_chi", "subdaily_Ac"}
               /\ outputs' = [subdaily_Ac |-> Ac]
               /\ collab' = Answered(collab, "subdaily_Ac", Ac)
          ELSE /\ pc' = "done"
               /\ attrs' = attrs \cup {"subdaily_vcmax", "subdaily_jmax",
                                       "optimal_chi", "subdaily_Ac", "subdaily_Aj",
                                       "gpp"}
               /\ outputs' = [subdaily_Ac |-> Ac, subdaily_Aj |-> Aj,
                              gpp |-> gpp(Aj, Ac, args.k_c_molmass)]
               /\ collab' = Answered(Answered(collab, "subdaily_Ac", Ac),
                                     "subdaily_Aj", Aj)
               /\ UNCHANGED error
    /\ UNCHANGED <<given, optimal, realised>>

\* ------------------------------------------------------------------------
\* SubdailyPModel_JAMES.__init__
\* ------------------------------------------------------------------------

\* The length of fs_scaler.datetimes against the first axis of env.tc.
JAMES_CheckCongruence ==
    /\ args.cls = "SubdailyPModel_JAMES"
    /\ pc = "start"
    /\ IF args.n_datetimes # args.n_env_first_axis
       THEN Raise("ValueError", "env and fs_scaler do not have congruent dimensions")
       ELSE pc' = "check_include" /\ UNCHANGED error
    /\ UNCHANGED <<given, log, attrs, optimal, realised, outputs, collab>>

\* Has a set method been run on fs_scaler; then self.env.
JAMES_CheckInclude ==
    /\ args.cls = "SubdailyPModel_JAMES"
    /\ pc = "check_include"
    /\ IF ~args.include
       THEN /\ Raise("ValueError", "The daily sampling window has not been set on fs_scaler")
            /\ UNCHANGED attrs
       ELSE /\ pc' = "daily_means"
            /\ attrs' = attrs \cup {"env"}
            /\ UNCHANGED error
    /\ UNCHANGED <<given, log, optimal, realised, outputs, collab>>

\* The daily acclimation targets of the forcing, then of ppfd and fapar.
JAMES_DailyMeans ==
    /\ args.cls = "SubdailyPModel_JAMES"
    /\ pc = "daily_means"
    /\ LET forcing ==
              <<<<"get_daily_means", "tc">>, <<"get_daily_means", "co2">>,
                <<"get_daily_means", "patm">>,
                IF args.vpd_scaler
                THEN <<"vpd_scaler.get_daily_means", "vpd">>
                ELSE <<"get_daily_means", "vpd">>>>
       IN  \E ppfd_ok \in Answers("get_daily_means(ppfd)",
                                  get_daily_means(args.n_ppfd, args.n_datetimes)) :
           \E fapar_ok \in Answers("get_daily_means(fapar)",
                                   get_daily_means(args.n_fapar, args.n_datetimes)) :
              IF ~ppfd_ok
              THEN /\ log' = log \o forcing \o <<<<"get_daily_means", "ppfd">>>>
                   /\ collab' = Answered(collab, "get_daily_means(ppfd)", FALSE)
                   /\ Raise("Exception", "get_daily_means")
                   /\ UNCHANGED attrs
              ELSE /\ log' = log \o forcing
                         \o <<<<"get_daily_means", "ppfd">>, <<"get_daily_means", "fapar">>>>
                   /\ collab' = Answered(Answered(collab, "get_daily_means(ppfd)", TRUE),
                                         "get_daily_means(fapar)", fapar_ok)
                   /\ IF ~fapar_ok
                      THEN /\ Raise("Exception", "get_daily_means")
                           /\ attrs' = attrs \cup {"ppfd_acclim"}
                      ELSE /\ attrs' = attrs \cup {"ppfd_acclim", "fapar_acclim"}
                           /\ pc' = "fit"
                           /\ UNCHANGED error
    /\ UNCHANGED <<given, optimal, realised, outputs>>

\* The daily P Model, its productivity, and the optimal vcmax and jmax at
\* 25 degrees by the simple Arrhenius factor.
JAMES_FitAndNormalise ==
    /\ args.cls = "SubdailyPModel_JAMES"
    /\ pc = "fit"
    /\ optimal' \in Answers("pmodel_acclim", DailyOptima)
    /\ collab' = Answered(collab, "pmodel_acclim", optimal')
    /\ log' = log
          \o <<<<"PModelEnvironment", "daily">>,
               <<"PModel", "temperature", "kphio">>,
               <<"estimate_productivity", "daily">>,
               <<"calculate_simple_arrhenius_factor", "daily">>>>
    /\ attrs' = attrs \cup {"pmodel_acclim", "vcmax25_opt", "jmax25_opt"}
    /\ pc' = "memory_effect"
    /\ UNCHANGED <<given, error, realised, outputs>>

\* The realised daily values of vcmax25 and jmax25, without a seed.
JAMES_RealisedValues ==
    /\ args.cls = "SubdailyPModel_JAMES"
    /\ pc = "memory_effect"
    /\ LET calls ==
              UntilRaised(
                 <<memory_effect(optimal.vcmax25, None, args.alpha, args.allow_holdover),
                   memory_effect(optimal.jmax25, None, args.alpha, args.allow_holdover)>>)
           last == calls[Len(calls)]
           keywords == [alpha |-> args.alpha, allow_holdover |-> args.allow_holdover]
       IN  /\ realised' = calls
           /\ log' = log \o SubSeq(<<<<"memory_effect", "vcmax25_opt", keywords>>,
                                     <<"memory_effect", "jmax25_opt", keywords>>>>,
                                   1, Len(calls))
           /\ attrs' = attrs \cup
                 {(<<"vcmax25_real", "jmax25_real">>)[i] :
                     i \in {i \in 1..Len(calls) : calls[i].kind = "returned"}}
           /\ IF last.kind = "raised"
              THEN Raise(last.error[1], last.error[2])
              ELSE pc' = "fill" /\ UNCHANGED error
    /\ UNCHANGED <<given, optimal, outputs, collab>>

\* A mutant of JAMES_fills: every series is filled forward from midnight.
JAMES_fills_from_midnight(fill_from) ==
    <<<<"fill_daily_to_subdaily", "gammastar", [fill_from |-> timedelta64(0, "h")]>>,
      <<"fill_daily_to_subdaily", "xi", [fill_from |-> timedelta64(0, "h")]>>,
      <<"fill_daily_to_subdaily", "ca", [fill_from |-> timedelta64(0, "h")]>>,
      <<"subdaily_ci", "env.vpd",
        [xi |-> "subdaily_xi", ca |-> "subdaily_ca", gammastar |-> "subdaily_gammastar"]>>,
      <<"fill_daily_to_subdaily", "vcmax25_real", [fill_from |-> timedelta64(0, "h")]>>,
      <<"fill_daily_to_subdaily", "jmax25_real", [fill_from |-> timedelta64(0, "h")]>>>>

\* The fills of SubdailyPModel_JAMES and the subdaily ci between them: the
\* daily gammastar, optimal xi and ca of pmodel_acclim filled forward from
\* midnight; ci from those three and the square root of the subdaily
\* env.vpd; the realised vcmax25 and jmax25 filled from fill_from.
JAMES_fills(fill_from) ==
    <<<<"fill_daily_to_subdaily", "gammastar", [fill_from |-> timedelta64(0, "h")]>>,
      <<"fill_daily_to_subdaily", "xi", [fill_from |-> timedelta64(0, "h")]>>,
      <<"fill_daily_to_subdaily", "ca", [fill_from |-> timedelta64(0, "h")]>>,
      <<"subdaily_ci", "env.vpd",
        [xi |-> "subdaily_xi", ca |-> "subdaily_ca", gammastar |-> "subdaily_gammastar"]>>,
      <<"fill_daily_to_subdaily", "vcmax25_real", [fill_from |-> fill_from]>>,
      <<"fill_daily_to_subdaily", "jmax25_real", [fill_from |-> fill_from]>>>>

\* gammastar, xi and ca filled from midnight and ci; vcmax25 and jmax25
\* filled from fill_from; subdaily vcmax and jmax; Ac, J, Aj and GPP.
JAMES_FillAndAssimilate ==
    /\ args.cls = "SubdailyPModel_JAMES"
    /\ pc = "fill"
    /\ log' = log
          \o JAMES_fills(args.fill_from)
          \o <<<<"calculate_simple_arrhenius_factor", "subdaily">>,
               <<"QuantumYieldTemperature", "kphio">>>>
          \o (IF broadcastable(args)
              THEN <<<<"np.minimum", "subdaily_Aj", "subdaily_Ac">>>> ELSE <<>>)
    /\ \E Ac \in Answers("subdaily_Ac", SubdailySeries) :
       \E Aj \in Answers("subdaily_Aj", SubdailySeries) :
          IF ~broadcastable(args)
          THEN /\ Raise("ValueError", "operands could not be broadcast together")
               /\ attrs' = attrs \cup {"subdaily_ci", "subdaily_vcmax25",
                                       "subdaily_jmax25", "subdaily_vcmax",
                                       "subdaily_jmax", "subdaily_Ac", "kphio"}
               /\ outputs' = [subdaily_Ac |-> Ac]
               /\ collab' = Answered(collab, "subdaily_Ac", Ac)
          ELSE /\ pc' = "done"
               /\ attrs' = attrs \cup {"subdaily_ci", "subdaily_vcmax25",
                                       "subdaily_jmax25", "subdaily_vcmax",
                                       "subdaily_jmax", "subdaily_Ac", "kphio",
                                       "subdaily_Aj", "gpp"}
               /\ outputs' = [subdaily_Ac |-> Ac, subdaily_Aj |-> Aj,
                              gpp |-> gpp(Aj, Ac, args.k_c_molmass)]
               /\ collab' = Answered(Answered(collab, "subdaily_Ac", Ac),
                                     "subdaily_Aj", Aj)
               /\ UNCHANGED error
    /\ UNCHANGED <<given, optimal, realised>>

\* ------------------------------------------------------------------------
\* A caller of the constructors
\* ------------------------------------------------------------------------

\* What a caller sees of a construction: the exception raised, or the
\* engine returned, with the values of its attributes.
Outcome ==
    [pc |-> pc, error |-> error,
     attrs |-> IF pc = "done" THEN attrs ELSE {},
     realised |-> IF pc = "done" THEN realised ELSE <<>>,
     outputs |-> IF pc = "done" THEN outputs ELSE <<>>]

\* The constructor is called once more with the same arguments, after the
\* first construction has ended.
ConstructAgain ==
    /\ pc \in {"done", "raised"}
    /\ constructions = 1
    /\ constructions' = 2
    /\ first' = Outcome
    /\ pc' = "start"
    /\ error' = <<>>
    /\ log' = <<>>
    /\ attrs' = {}
    /\ optimal' = <<>>
    /\ realised' = <<>>
    /\ outputs' = <<>>
    /\ UNCHANGED <<mvars, svars, args, collab, conversion>>

NextEngine ==
    \/ CheckCongruence
    \/ CheckInclude
    \/ ValidateMethods
    \/ DailyAcclimationModel
    \/ DailyLightMeans
    \/ EstimateAndNormalise
    \/ CheckPreviousRealised
    \/ RealisedValues
    \/ FillToSubdaily
    \/ RescaleAndAssimilate
    \/ JAMES_CheckCongruence
    \/ JAMES_CheckInclude
    \/ JAMES_DailyMeans
    \/ JAMES_FitAndNormalise
    \/ JAMES_RealisedValues
    \/ JAMES_FillAndAssimilate
    \/ ConstructAgain

SpecEngine == InitEngine /\ [][NextEngine]_vars

\* ------------------------------------------------------------------------
\* convert_pmodel_to_subdaily
\* ------------------------------------------------------------------------

\* The defaults of the signature of SubdailyPModel.__init__.
SubdailyPModelDefaults ==
    [method_optchi |-> "prentice14",
     method_jmaxlim |-> "wang17",
     method_kphio |-> "temperature",
     method_arrhenius |-> "simple",
     reference_kphio |-> None,
     alpha |-> Rat(1, 15),
     allow_holdover |-> FALSE,
     allow_partial_data |-> FALSE,
     fill_kind |-> "previous",
     previous_realised |-> None]

\* The keyword arguments `keywords` of a call of SubdailyPModel, and the
\* defaults for the others.
WithDefaults(keywords) == keywords @@ SubdailyPModelDefaults

\* The arguments of the constructor as the steps of the constructor read
\* them: the lengths of the first axes of the series, the window, the size
\* of the reference kphio, the constant k_c_molmass of env.
SubdailyPModelCall(a) ==
    [cls |-> "SubdailyPModel",
     n_datetimes |-> a.fs_scaler.n_datetimes,
     include |-> a.fs_scaler.include,
     n_env_first_axis |-> a.env.n_first_axis,
     k_c_molmass |-> a.env.k_c_molmass,
     n_fapar |-> a.fapar.n_first_axis,
     n_ppfd |-> a.ppfd.n_first_axis,
     reference_kphio_size |-> a.reference_kphio.size,
     vpd_scaler |-> FALSE] @@ a

\* The call SubdailyPModel(...) that convert_pmodel_to_subdaily returns the
\* result of.
convert_pmodel_to_subdaily(pmodel, fs_scaler, alpha_, allow_holdover_, fill_kind) ==
    SubdailyPModelCall(WithDefaults(
        [env |-> pmodel.env,
         fs_scaler |-> fs_scaler,
         fapar |-> pmodel.fapar,
         ppfd |-> pmodel.ppfd,
         method_optchi |-> pmodel.method_optchi,
         method_jmaxlim |-> pmodel.method_jmaxlim,
         method_kphio |-> pmodel.method_kphio,
         reference_kphio |-> pmodel.kphio.reference_kphio,
         alpha |-> alpha_,
         allow_holdover |-> allow_holdover_,
         fill_kind |-> fill_kind]))

\* The methods of limiting Jmax a P Model may be fitted with.
JmaxLimitationMethods == {"wang17", "smith19"}

\* The reference kphio of a P Model: one value, or an array of two.
ReferenceKphios == {[name |-> "reference_kphio", size |-> n] : n \in {1, 2}}

\* The P Models to convert: fitted with methods their registries hold, and
\* with the fapar and ppfd their productivity was estimated from, which are
\* as long as their environment.
PModels ==
    {[env |-> [name |-> "pmodel.env", n_first_axis |-> n,
               k_c_molmass |-> Rat(120107, 10000)],
      fapar |-> [name |-> "pmodel.fapar", n_first_axis |-> n],
      ppfd |-> [name |-> "pmodel.ppfd", n_first_axis |-> n],
      method_optchi |-> optchi,
      method_jmaxlim |-> jmaxlim,
      method_kphio |-> kphio,
      method_arrhenius |-> arrhenius,
      kphio |-> [reference_kphio |-> reference]] :
        n \in Lengths,
        optchi \in OPTIMAL_CHI_CLASS_REGISTRY,
        jmaxlim \in JmaxLimitationMethods,
        kphio \in QUANTUM_YIELD_CLASS_REGISTRY,
        arrhenius \in ARRHENIUS_METHOD_REGISTRY,
        reference \in ReferenceKphios}

\* The calls of convert_pmodel_to_subdaily.
ConversionCalls ==
    [cls : {"convert_pmodel_to_subdaily"},
     pmodel : PModels,
     fs_scaler : [n_datetimes : Lengths, include : BOOLEAN],
     alpha : {Rat(1, 15), Rat(1, 2)},
     allow_holdover : BOOLEAN,
     fill_kind : FillKinds]

InitConvert ==
    /\ values = <<<<One>>>>
    /\ previous_values = None
    /\ alpha = One
    /\ allow_holdover = FALSE
    /\ result = NotCalled
    /\ split = 0
    /\ first_chunk = NotCalled
    /\ second_chunk = NotCalled
    /\ conversion \in ConversionCalls
    /\ args = conversion
    /\ pc = "convert"
    /\ error = <<>>
    /\ log = <<>>
    /\ attrs = {}
    /\ optimal = <<>>
    /\ realised = <<>>
    /\ outputs = <<>>
    /\ collab = <<>>
    /\ constructions = 0
    /\ first = <<>>
    /\ SoilIdle

\* convert_pmodel_to_subdaily calls the constructor of SubdailyPModel, whose
\* steps follow.
Convert ==
    /\ args.cls = "convert_pmodel_to_subdaily"
    /\ pc = "convert"
    /\ args' = convert_pmodel_to_subdaily(args.pmodel, args.fs_scaler, args.alpha,
                                          args.allow_holdover, args.fill_kind)
    /\ pc' = "start"
    /\ constructions' = 1
    /\ UNCHANGED <<mvars, svars, error, log, attrs, optimal, realised, outputs,
                   collab, first, conversion>>

NextConvert ==
    \/ Convert
    \/ CheckCongruence
    \/ CheckInclude
    \/ ValidateMethods
    \/ DailyAcclimationModel
    \/ DailyLightMeans
    \/ EstimateAndNormalise
    \/ CheckPreviousRealised
    \/ RealisedValues
    \/ FillToSubdaily
    \/ RescaleAndAssimilate

SpecConvert == InitConvert /\ [][NextConvert]_vars

\* ------------------------------------------------------------------------
\* Calls of calc_soilmstress_stocker
\* ------------------------------------------------------------------------

\* Relative soil moisture: missing, below, between and above the thresholds.
SoilMoistures ==
    {NaN, Rat(-1, 10), Rat(0, 1), Rat(1, 10), Rat(1, 5), Rat(3, 10), Rat(1, 2),
     Rat(3, 5), Rat(7, 10), Rat(1, 1)}

\* The mean ratio of actual over potential evapotranspiration.
MeanAlphas == {NaN, Rat(0, 1), Rat(1, 2), Rat(1, 1), Rat(2, 1)}

\* The constants: those of PModelConst(), or others the caller gives.
PModelConsts ==
    {PModelConst,
     [soilmstress_theta0 |-> Rat(1, 10), soilmstress_thetastar |-> Rat(1, 2),
      soilmstress_a |-> Rat(1, 10), soilmstress_b |-> Rat(1, 2)]}

InitSoil ==
    /\ values = <<<<One>>>>
    /\ previous_values = None
    /\ alpha = One
    /\ allow_holdover = FALSE
    /\ result = NotCalled
    /\ split = 0
    /\ first_chunk = NotCalled
    /\ second_chunk = NotCalled
    /\ EngineIdle
    /\ soilm \in SoilMoistures
    /\ meanalpha \in MeanAlphas
    /\ pmodel_const \in PModelConsts
    /\ outstress = NotCalled

\* A call of calc_soilmstress_stocker; it may be repeated.
CallSoilmStress ==
    /\ outstress' = calc_soilmstress_stocker(soilm, meanalpha, pmodel_const)
    /\ UNCHANGED <<mvars, evars, soilm, meanalpha, pmodel_const>>

NextSoil == CallSoilmStress

SpecSoil == InitSoil /\ [][NextSoil]_vars

\* ------------------------------------------------------------------------
\* Properties of memory_effect
\* ------------------------------------------------------------------------

Missing(x) == x = NaN

HasMissing(a) == \E t \in 1..Len(a) : \E j \in 1..Len(a[t]) : Missing(a[t][j])

\* r * (1 - a) + o * a
Weighted(r, o, a) == Add(Mul(r, Sub(One, a)), Mul(o, a))

\* The first realised slice that seed s gives for the series O.
FirstRealised(s, O, a) ==
    IF s = None THEN O[1] ELSE [j \in 1..Len(O[1]) |-> Weighted(s[j], O[1][j], a)]

SameShape(R, O) ==
    /\ Len(R) = Len(O)
    /\ \A t \in 1..Len(O) : Len(R[t]) = Len(O[t])

Called == result.kind # "none"

\* C1: without a seed and without missing entries, for alpha in (0, 1], the
\* call returns R with R[0] = O[0] and R[t] = R[t-1]*(1-alpha) + O[t]*alpha
\* for every t > 0; O = [1, 2, 3] with alpha = 1/2 gives R = [1, 3/2, 9/4].
C1_RecursionLaw ==
    (Called /\ previous_values = None /\ ~HasMissing(values)
        /\ alpha # Zero /\ Leq(Zero, alpha) /\ Leq(alpha, One))
    => /\ result.kind = "returned"
       /\ SameShape(result.value, values)
       /\ result.value[1] = values[1]
       /\ \A t \in 2..Len(values) : \A j \in 1..Len(values[t]) :
             result.value[t][j] = Weighted(result.value[t - 1][j], values[t][j], alpha)
       /\ (values = <<<<Rat(1, 1)>>, <<Rat(2, 1)>>, <<Rat(3, 1)>>>> /\ alpha = Rat(1, 2))
             => result.value = <<<<Rat(1, 1)>>, <<Rat(3, 2)>>, <<Rat(9, 4)>>>>

C1_Witness ==
    /\ result.kind = "returned"
    /\ previous_values = None
    /\ alpha = Rat(1, 2)
    /\ values = <<<<Rat(1, 1)>>, <<Rat(2, 1)>>, <<Rat(3, 1)>>>>
    /\ result.value = <<<<Rat(1, 1)>>, <<Rat(3, 2)>>, <<Rat(9, 4)>>>>

\* C2: with a seed S the first realised value is S*(1-alpha) + O[0]*alpha and
\* without a seed it is O[0]; any other seed (or none) that gives the same
\* first realised value gives the same result, so the seed acts through R[0]
\* alone.
C2_SeedBlending ==
    result.kind = "returned"
    => /\ previous_values # None =>
             \A j \in 1..Len(values[1]) :
                result.value[1][j] = Weighted(previous_values[j], values[1][j], alpha)
       /\ previous_values = None => result.value[1] = values[1]
       /\ \A s \in SeedInputs(values) :
             FirstRealised(s, values, alpha) = result.value[1]
             => memory_effect(values, s, alpha, allow_holdover) = result

C2_Witness ==
    /\ result.kind = "returned"
    /\ previous_values = <<Rat(2, 1)>>
    /\ values = <<<<Rat(1, 1)>>, <<Rat(3, 1)>>>>
    /\ alpha = Rat(1, 4)
    /\ result.value[1] = <<Rat(7, 4)>>

\* The table of the missing-value policy for one element: the realised value
\* that follows the previous realised value r on the optimal value o.
HoldoverTable(r, o, a) ==
    IF Missing(r) /\ Missing(o) THEN NaN
    ELSE IF Missing(r) THEN o
    ELSE IF Missing(o) THEN r
    ELSE Weighted(r, o, a)

\* C3: with allow_holdover=True every element of R[t], t > 0, follows the
\* table on (R[t-1] missing?, O[t] missing?): missing, O[t], R[t-1] or the
\* weighted sum; O = [1, missing, 3] with alpha = 1/2 gives R = [1, 1, 2].
C3_HoldoverTable ==
    (Called /\ allow_holdover)
    => /\ result.kind = "returned"
       /\ \A t \in 2..Len(values) : \A j \in 1..Len(values[t]) :
             result.value[t][j]
                = HoldoverTable(result.value[t - 1][j], values[t][j], alpha)
       /\ (values = <<<<Rat(1, 1)>>, <<NaN>>, <<Rat(3, 1)>>>> /\ alpha = Rat(1, 2)
              /\ previous_values = None)
             => result.value = <<<<Rat(1, 1)>>, <<Rat(1, 1)>>, <<Rat(2, 1)>>>>

\* C4: a series with a missing entry, at any time index and in any element,
\* is rejected without holdover: the call raises the ValueError for missing
\* values and returns nothing.
C4_MissingWithoutHoldoverFails ==
    (Called /\ HasMissing(values) /\ ~allow_holdover)
    => /\ result.kind = "raised"
       /\ result.error = <<"ValueError", "Missing values in data passed to memory_effect">>
       /\ result.value = <<>>

C4_Witness ==
    /\ result.kind = "raised"
    /\ ~allow_holdover
    /\ Len(values) = 2
    /\ values[1] = <<Rat(1, 1), Rat(2, 1)>>
    /\ values[2] = <<Rat(1, 1), NaN>>

\* C5: with alpha = 1 and no seed a series without missing entries is
\* returned as it is.
C5_IdentityAtAlphaOne ==
    (Called /\ alpha = One /\ previous_values = None /\ ~HasMissing(values))
    => /\ result.kind = "returned"
       /\ result.value = values

C5_Witness ==
    /\ result.kind = "returned"
    /\ alpha = One
    /\ previous_values = None
    /\ values = <<<<Rat(3, 1)>>, <<Rat(1, 1)>>, <<Rat(2, 1)>>>>
    /\ result.value = values

\* C6: with alpha = 0 and no missing entries in the series every realised
\* value equals the first one, which is O[0] when no seed is given.
C6_FullMemoryAtAlphaZero ==
    (Called /\ alpha = Zero /\ ~HasMissing(values))
    => /\ result.kind = "returned"
       /\ \A t \in 1..Len(values) : result.value[t] = result.value[1]
       /\ previous_values = None => result.value[1] = values[1]

C6_Witness ==
    /\ result.kind = "returned"
    /\ alpha = Zero
    /\ previous_values = None
    /\ values = <<<<Rat(1, 1)>>, <<Rat(2, 1)>>, <<Rat(3, 1)>>>>
    /\ result.value = <<<<Rat(1, 1)>>, <<Rat(1, 1)>>, <<Rat(1, 1)>>>>

ChunkedFitDone == second_chunk.kind # "none"

\* C7: for a series without missing entries, a fit of O[0..k] followed by a
\* fit of O[k+1..n] seeded with the last realised value of the first gives
\* the realised values of one fit of O[0..n].
C7_ChunkedFitContinuity ==
    (~HasMissing(values) /\ first_chunk.kind # "none")
    => /\ first_chunk.kind = "returned"
       /\ first_chunk.value = SubSeq(result.value, 1, split)
       /\ ChunkedFitDone =>
             /\ second_chunk.kind = "returned"
             /\ first_chunk.value \o second_chunk.value = result.value

C7_Witness ==
    /\ second_chunk.kind = "returned"
    /\ split = 1
    /\ alpha = Rat(1, 4)
    /\ previous_values = None
    /\ values = <<<<Rat(1, 1)>>, <<Rat(3, 1)>>, <<Rat(2, 1)>>>>
    /\ first_chunk.value \o second_chunk.value = result.value

Terminated == pc \in {"done", "raised"}

CongruenceError == <<"ValueError", "env and fs_scaler do not have congruent dimensions">>

WindowNotSetError ==
    <<"ValueError", "The daily sampling window has not been set on fs_scaler">>

DailyMeanExtracted ==
    \E i \in 1..Len(log) : log[i][1] \in {"get_daily_means", "vpd_scaler.get_daily_means"}

\* C9 as claimed: a construction ends with the congruence error whenever the
\* number of timestamps differs from the length of any forcing series, the
\* environment's or fAPAR or PPFD.
C9_CongruenceOfEveryForcing ==
    (Terminated
        /\ (\/ args.n_datetimes # args.n_env_first_axis
            \/ args.n_datetimes # args.n_fapar
            \/ args.n_datetimes # args.n_ppfd))
    => (pc = "raised" /\ error = CongruenceError)

\* C9 as amended: in both classes the construction fails with the congruence
\* error, before any other step, whenever the number of timestamps differs
\* from the length of the first axis of env.tc; the check compares nothing
\* else, so the lengths of fAPAR and PPFD never raise it.
C9_CongruenceOfEnvironment ==
    /\ args.n_datetimes # args.n_env_first_axis
          => /\ pc \in {"start", "raised"}
             /\ pc = "raised" => (error = CongruenceError /\ log = <<>> /\ attrs = {})
    /\ error = CongruenceError => args.n_datetimes # args.n_env_first_axis

C9_Witness ==
    /\ pc = "raised"
    /\ error = CongruenceError
    /\ args.cls = "SubdailyPModel"
    /\ args.n_env_first_axis = 10
    /\ args.n_fapar = 10
    /\ args.n_ppfd = 10
    /\ args.n_datetimes = 9

\* C10 as claimed: a construction with a window that has no inclusion rule
\* ends with the error for the unset window, with no daily mean extracted.
C10_UnsetWindowNotConfigured ==
    (Terminated /\ ~args.include)
    => (pc = "raised" /\ error = WindowNotSetError /\ ~DailyMeanExtracted)

\* C10 as amended: in both classes a construction with a window that has no
\* inclusion rule fails before any daily mean is extracted, with the error
\* for the unset window when the timestamps are congruent with env.tc and
\* with the congruence error, raised first, when they are not.
C10_UnsetWindowFails ==
    ~args.include
    => /\ pc \in {"start", "check_include", "raised"}
       /\ ~DailyMeanExtracted
       /\ pc = "raised" =>
             error = IF args.n_datetimes = args.n_env_first_axis
                     THEN WindowNotSetError
                     ELSE CongruenceError

C10_Witness ==
    /\ pc = "raised"
    /\ error = WindowNotSetError
    /\ args.cls = "SubdailyPModel_JAMES"
    /\ ~args.include
    /\ log = <<>>

IsSubdailyPModel == args.cls = "SubdailyPModel"

\* A call of the collaborator `name` has been made.
LogHas(name) == \E i \in 1..Len(log) : log[i][1] = name

SeedFillError ==
    <<"NotImplementedError",
      "Using previous_realised is only implemented for fill_kind = 'previous'">>

SeedShapeError ==
    <<"ValueError", "previous_realised entries have wrong shape in Subdaily PModel">>

UnknownOptChiError == <<"ValueError", "Unknown optimal chi estimation method">>

UnknownKphioError == <<"ValueError", "Unknown kphio calculation method">>

UnknownArrheniusError == <<"ValueError", "Unknown Arrhenius scaling method">>

MethodsKnown ==
    /\ args.method_optchi \in OPTIMAL_CHI_CLASS_REGISTRY
    /\ args.method_kphio \in QUANTUM_YIELD_CLASS_REGISTRY
    /\ args.method_arrhenius \in ARRHENIUS_METHOD_REGISTRY

\* The checks made before the daily conditions are extracted all pass.
EarlyChecksPass ==
    /\ args.n_datetimes = args.n_env_first_axis
    /\ args.include
    /\ MethodsKnown

\* The daily optimality model has been fitted and normalised.
DailyFitDone == LogHas("estimate_productivity") /\ LogHas("Arrhenius")

NoFilterNoFill ==
    /\ ~LogHas("memory_effect")
    /\ ~LogHas("fill_daily_to_subdaily")
    /\ realised = <<>>
    /\ pc \notin {"memory_effect", "fill", "assimilation", "done"}

SeedWithOtherFill ==
    IsSubdailyPModel /\ args.previous_realised # None /\ args.fill_kind # "previous"

\* C11 as claimed: whenever previous_realised is given with a fill_kind other
\* than 'previous', the construction of SubdailyPModel ends with the
\* NotImplemented error, and no memory effect or fill is performed.
C11_SeedWithOtherFillNotImplemented ==
    (Terminated /\ SeedWithOtherFill)
    => (pc = "raised" /\ error = SeedFillError /\ NoFilterNoFill)

\* C11 as amended: with previous_realised given and a fill_kind other than
\* 'previous' the construction of SubdailyPModel always fails, with no
\* memory effect and no fill performed; it fails with the NotImplemented
\* error, whatever the shapes of the seeds, when the earlier steps pass
\* (congruent timestamps, window set, known method names, daily fit done),
\* and with the error of the first earlier step that fails otherwise.
C11_SeedWithOtherFillFails ==
    SeedWithOtherFill
    => /\ NoFilterNoFill
       /\ pc = "raised" =>
             (error = SeedFillError <=> (EarlyChecksPass /\ DailyFitDone))
       /\ (EarlyChecksPass /\ DailyFitDone) =>
             pc \in {"check_previous_realised", "raised"}

C11_Witness ==
    /\ pc = "raised"
    /\ error = SeedFillError
    /\ IsSubdailyPModel
    /\ args.fill_kind = "linear"
    /\ args.previous_realised = [Seeds EXCEPT ![3] = BadSeed]
    /\ DailyFitDone

\* A seed is given for a hold-previous fill and one of the three does not
\* have the shape of a time slice of the forcing.
SeedOfWrongShape ==
    /\ IsSubdailyPModel
    /\ args.previous_realised # None
    /\ args.fill_kind = "previous"
    /\ \E i \in 1..3 : Len(args.previous_realised[i]) # expected_shape

\* C12 as claimed: with previous_realised given and fill_kind 'previous', the
\* construction of SubdailyPModel ends with the shape error whenever one of
\* the three seeds has not the shape of a time slice, before any memory
\* effect.
C12_SeedShapeMismatch ==
    (Terminated /\ SeedOfWrongShape)
    => (pc = "raised" /\ error = SeedShapeError /\ NoFilterNoFill)

\* C12 as amended: with previous_realised given and fill_kind 'previous', a
\* seed of xi, vcmax25 or jmax25 that has not the shape of a time slice
\* makes the construction fail before memory_effect is applied to any
\* variable; it fails with the shape error when the earlier steps pass and
\* with the error of the first earlier step that fails otherwise.  The shape
\* error is raised for no other input.
C12_SeedShapeChecked ==
    /\ SeedOfWrongShape
       => /\ NoFilterNoFill
          /\ pc = "raised" =>
                (error = SeedShapeError <=> (EarlyChecksPass /\ DailyFitDone))
          /\ (EarlyChecksPass /\ DailyFitDone) =>
                pc \in {"check_previous_realised", "raised"}
    /\ error = SeedShapeError => SeedOfWrongShape

C12_Witness ==
    /\ pc = "raised"
    /\ error = SeedShapeError
    /\ args.previous_realised = [Seeds EXCEPT ![3] = BadSeed]
    /\ args.fill_kind = "previous"
    /\ NoFilterNoFill

UnknownMethod == IsSubdailyPModel /\ ~MethodsKnown

UnknownMethodErrors == {UnknownOptChiError, UnknownKphioError, UnknownArrheniusError}

\* The error of the first of the three names that its registry does not hold.
FirstUnknownMethodError ==
    IF args.method_optchi \notin OPTIMAL_CHI_CLASS_REGISTRY THEN UnknownOptChiError
    ELSE IF args.method_kphio \notin QUANTUM_YIELD_CLASS_REGISTRY THEN UnknownKphioError
    ELSE UnknownArrheniusError

\* C13 as claimed: the construction of SubdailyPModel with a method name that
\* its registry does not hold ends with an UnknownMethod error, with no
\* daily mean computed and no daily model fitted.
C13_UnknownMethodRejected ==
    (Terminated /\ UnknownMethod)
    => (pc = "raised" /\ error \in UnknownMethodErrors /\ log = <<>>)

\* C13 as amended: the construction of SubdailyPModel with a method name that
\* its registry does not hold always fails before any daily mean is computed
\* and before the daily model is fitted; it fails with the UnknownMethod
\* error of the first unknown name (optimal chi, kphio, Arrhenius) when the
\* timestamps are congruent with env.tc and the window is set, with the
\* congruence error when they are not congruent and else with the error for
\* the unset window.
C13_UnknownMethodFails ==
    /\ UnknownMethod
       => /\ pc \in {"start", "check_include", "validate_methods", "raised"}
          /\ log = <<>>
          /\ pc = "raised" =>
                error = IF args.n_datetimes # args.n_env_first_axis THEN CongruenceError
                        ELSE IF ~args.include THEN WindowNotSetError
                        ELSE FirstUnknownMethodError
    /\ (IsSubdailyPModel /\ error \in UnknownMethodErrors) => UnknownMethod

C13_Witness ==
    /\ pc = "raised"
    /\ error = UnknownArrheniusError
    /\ args.method_optchi = "prentice14"
    /\ args.method_kphio = "temperature"
    /\ args.method_arrhenius = "nonesuch"
    /\ log = <<>>

\* The outputs of a SubdailyPModel.
EngineOutputs ==
    {"xi_real", "vcmax25_real", "jmax25_real", "subdaily_xi", "subdaily_vcmax25",
     "subdaily_jmax25", "subdaily_vcmax", "subdaily_jmax", "subdaily_Ac",
     "subdaily_Aj", "gpp"}

\* C14: a construction of SubdailyPModel either returns an engine that has
\* every output, or raises an error and gives the caller no engine and no
\* output; while it runs the caller holds nothing, so that no caller holds
\* an engine with an output missing.
C14_AllOrNothing ==
    IsSubdailyPModel
    => /\ pc = "done" => (error = <<>> /\ EngineOutputs \subseteq Outcome.attrs)
       /\ pc = "raised" => (error # <<>> /\ Outcome.attrs = {})
       /\ Outcome.attrs = {} \/ EngineOutputs \subseteq Outcome.attrs

\* The construction fails in its last step, with outputs set on the engine
\* that is never returned.
C14_Witness ==
    /\ IsSubdailyPModel
    /\ pc = "raised"
    /\ {"xi_real", "subdaily_xi", "subdaily_Ac"} \subseteq attrs
    /\ "gpp" \notin attrs
    /\ Outcome.attrs = {}

\* The smaller of two values, missing when either is missing.
Smaller(x, y) == IF Missing(x) \/ Missing(y) THEN NaN ELSE IF Leq(x, y) THEN x ELSE y

\* C15: in an engine of either class gpp is, at every timestamp and element,
\* the smaller of subdaily_Aj and subdaily_Ac times k_c_molmass: it exceeds
\* neither stream times the constant, and it is negative when the smaller
\* stream is, with no clipping.
C15_GppIsUnclippedMinimum ==
    pc = "done"
    => \A t \in 1..Len(outputs.gpp) : \A j \in 1..Len(outputs.gpp[t]) :
          LET Aj == outputs.subdaily_Aj[t][j]
              Ac == outputs.subdaily_Ac[t][j]
              g  == outputs.gpp[t][j]
              k  == args.k_c_molmass
          IN  /\ g = Mul(Smaller(Aj, Ac), k)
              /\ ~Missing(g) => (Leq(g, Mul(Aj, k)) /\ Leq(g, Mul(Ac, k)))
              /\ (Leq(Smaller(Aj, Ac), Zero) /\ Smaller(Aj, Ac) # Zero)
                    => (Leq(g, Zero) /\ g # Zero)

C15_Witness ==
    /\ pc = "done"
    /\ args.cls = "SubdailyPModel_JAMES"
    /\ outputs.subdaily_Aj = <<<<Rat(-1, 1)>>, <<Rat(2, 1)>>>>
    /\ outputs.subdaily_Ac = <<<<Rat(2, 1)>>, <<Rat(-1, 1)>>>>
    /\ outputs.gpp = <<<<Rat(-120107, 10000)>>, <<Rat(-120107, 10000)>>>>

FillKindUsed(keywords) ==
    IF "kind" \in DOMAIN keywords
    THEN keywords.kind
    ELSE collab["fill_daily_to_subdaily.kind"]

\* C18: in SubdailyPModel each of the three realised series is filled to the
\* subdaily timescale with a fill of the kind fill_kind, so that 'linear'
\* gives a linear fill and 'previous' a fill that holds the previous value.
C18_FillKindHonoured ==
    IsSubdailyPModel
    => \A i \in 1..Len(log) :
          log[i][1] = "fill_daily_to_subdaily"
          => FillKindUsed(log[i][3]) = args.fill_kind

\* The stage of the pipeline a call belongs to: 2 the daily conditions of
\* the forcing, 3 the daily fit with its light and its quantum yield, 4 the
\* normalisation, 5 the memory effect, 6 the fill, 7 the rescaling, 8 the
\* internal CO2, 9 the assimilation and GPP.
Stage(e) ==
    IF e[1] = "get_daily_means"
    THEN (IF e[2] \in {"tc", "co2", "patm", "vpd"} THEN 2 ELSE 3)
    ELSE IF e[1] \in {"PModelEnvironment", "QuantumYield", "PModel",
                      "estimate_productivity"} THEN 3
    ELSE IF e[1] = "Arrhenius" THEN (IF e[3] = "daily" THEN 4 ELSE 7)
    ELSE IF e[1] = "memory_effect" THEN 5
    ELSE IF e[1] = "fill_daily_to_subdaily" THEN 6
    ELSE IF e[1] \in {"OptimalChi", "estimate_chi"} THEN 8
    ELSE 9

\* The arrays the memory effect has been applied to, in order.
FilteredArrays ==
    LET at == {i \in 1..Len(log) : log[i][1] = "memory_effect"}
    IN  [n \in 1..Cardinality(at) |->
            log[CHOOSE i \in at : Cardinality({h \in at : h <= i}) = n][2]]

\* C19: in a construction of SubdailyPModel the checks of congruence and of
\* the window come before every call; the calls are made stage by stage in
\* the order daily conditions, daily fit, normalisation, memory effect,
\* fill, rescaling, internal CO2, assimilation and GPP, no stage being left
\* out or entered twice and no call being made twice; a construction that
\* succeeds has run every stage; the memory effect is applied to xi and to
\* the normalised vcmax25 and jmax25.
C19_StageOrder ==
    IsSubdailyPModel
    => /\ pc \in {"start", "check_include", "validate_methods"} => log = <<>>
       /\ \A i \in 1..Len(log) : \A j \in i + 1..Len(log) :
             /\ Stage(log[i]) <= Stage(log[j])
             /\ <<Stage(log[i]), log[i][1], log[i][2]>>
                   # <<Stage(log[j]), log[j][1], log[j][2]>>
       /\ \A i \in 1..Len(log) : \A s \in 2..Stage(log[i]) :
             \E h \in 1..i : Stage(log[h]) = s
       /\ pc = "done" =>
             /\ {Stage(log[i]) : i \in 1..Len(log)} = 2..9
             /\ FilteredArrays = <<"xi", "vcmax25_opt", "jmax25_opt">>

C19_Witness ==
    /\ IsSubdailyPModel
    /\ pc = "done"
    /\ args.reference_kphio_size = 2
    /\ args.previous_realised = Seeds
    /\ Len(log) = 22
    /\ Stage(log[Len(log)]) = 9

\* The seed of the variable numbered v: xi 1, vcmax25 2, jmax25 3.
SeedFor(v) ==
    IF args.previous_realised = None THEN None ELSE args.previous_realised[v]

VariableOf(name) ==
    IF name \in {"xi", "xi_real"} THEN 1
    ELSE IF name \in {"vcmax25_opt", "vcmax25_real"} THEN 2
    ELSE 3

\* C20: in SubdailyPModel every call of memory_effect is given the alpha and
\* the allow_holdover of the constructor and the seed of its own variable,
\* every fill is given the seed of its variable's filter, and the variables
\* are seeded all or none.
C20_ConsistentFilterConfiguration ==
    IsSubdailyPModel
    => \A i \in 1..Len(log) :
          /\ log[i][1] = "memory_effect"
             => /\ log[i][3].alpha = args.alpha
                /\ log[i][3].allow_holdover = args.allow_holdover
                /\ log[i][3].previous_values = SeedFor(VariableOf(log[i][2]))
                /\ \A j \in 1..Len(log) :
                      log[j][1] = "memory_effect"
                      => ((log[j][3].previous_values = None)
                             <=> (log[i][3].previous_values = None))
                /\ \A j \in 1..Len(log) :
                      (/\ log[j][1] = "fill_daily_to_subdaily"
                       /\ VariableOf(log[j][2]) = VariableOf(log[i][2]))
                      => log[j][3].previous_value = log[i][3].previous_values
          /\ log[i][1] = "fill_daily_to_subdaily"
             => log[i][3].previous_value = SeedFor(VariableOf(log[i][2]))

C20_Witness ==
    /\ IsSubdailyPModel
    /\ pc = "done"
    /\ args.allow_holdover
    /\ \E i \in 1..Len(log) :
          /\ log[i][1] = "memory_effect"
          /\ log[i][2] = "jmax25_opt"
          /\ log[i][3].previous_values = <<Rat(3, 1)>>
    /\ \E i \in 1..Len(log) :
          /\ log[i][1] = "fill_daily_to_subdaily"
          /\ log[i][2] = "vcmax25_real"
          /\ log[i][3].previous_value = <<Rat(2, 1)>>

\* ------------------------------------------------------------------------
\* Properties of calc_soilmstress_stocker
\* ------------------------------------------------------------------------

\* x < y
Less(x, y) == Leq(x, y) /\ x # y

\* q = (1 - (a + b * meanalpha)) / (thetastar - theta0)^2
Sensitivity ==
    Div(Sub(One, Add(pmodel_const.soilmstress_a,
                     Mul(pmodel_const.soilmstress_b, meanalpha))),
        Square(Sub(pmodel_const.soilmstress_thetastar,
                   pmodel_const.soilmstress_theta0)))

\* (m_s - thetastar)^2
SquaredDeficit == Square(Sub(soilm, pmodel_const.soilmstress_thetastar))

\* x limited to [0, 1]
Limited(x) ==
    IF Missing(x) THEN x ELSE IF Leq(x, Zero) THEN Zero ELSE IF Leq(One, x) THEN One ELSE x

CallsOf(name) == {i \in 1..Len(log) : log[i][1] = name}

\* The daily P Model has been fitted.
DailyModelFitted == IsSubdailyPModel /\ CallsOf("PModel") # {}

\* The daily mean of the subdaily kphio series has been taken at position i.
DailyMeanKphioAt(i) ==
    i \in 1..Len(log) /\ log[i] = <<"get_daily_means", "kphio">>

\* C21: in SubdailyPModel, if the reference kphio has more than one element
\* the daily P Model is fitted with the method 'fixed' and with the daily
\* mean of the subdaily kphio series, taken just before, as its reference;
\* otherwise it is fitted with the method and the reference of the subdaily
\* kphio and no daily mean of kphio is taken. The daily P Model is fitted
\* once, after the subdaily kphio, by exactly one of the two branches, and
\* every construction that passes the checks of the arguments fits it.
C21_QuantumYieldBranch ==
    IsSubdailyPModel
    => /\ Cardinality(CallsOf("PModel")) <= 1
       /\ pc \notin {"start", "check_include", "validate_methods",
                     "daily_environment", "raised"}
          => DailyModelFitted
       /\ \A i \in CallsOf("PModel") :
             /\ i > 1
             /\ \E h \in 1..i - 1 : log[h] = <<"QuantumYield", args.method_kphio>>
             /\ IF args.reference_kphio_size > 1
                THEN /\ log[i] = <<"PModel", "fixed", "daily mean kphio">>
                     /\ DailyMeanKphioAt(i - 1)
                ELSE /\ log[i] = <<"PModel", args.method_kphio, "reference_kphio">>
                     /\ \A h \in 1..Len(log) : ~DailyMeanKphioAt(h)

C21_Witness ==
    /\ DailyModelFitted
    /\ pc = "done"
    /\ args.reference_kphio_size = 2
    /\ args.method_kphio = "temperature"
    /\ \E i \in CallsOf("PModel") :
          log[i][2] = "fixed" /\ DailyMeanKphioAt(i - 1)

\* ------------------------------------------------------------------------
\* Further properties of memory_effect
\* ------------------------------------------------------------------------

\* A seed is given and one of its elements is missing.
SeedHasMissing ==
    previous_values # None /\ \E j \in 1..Len(previous_values) : Missing(previous_values[j])

\* x lies between a and b, whichever of the two is the larger.
Between(x, a, b) ==
    \/ Leq(a, x) /\ Leq(x, b)
    \/ Leq(b, x) /\ Leq(x, a)

\* x lies within the range of the numbers of S.
WithinRange(x, S) == \E lo \in S : \E hi \in S : Leq(lo, x) /\ Leq(x, hi)

\* Element j of the seed, if any, and of the optimal values O[0..t].
SeedAndOptimaUpTo(t, j) ==
    {values[u][j] : u \in 1..t}
        \cup (IF previous_values = None THEN {} ELSE {previous_values[j]})

\* Every realised value for t > 0 lies between the previous realised value
\* and the current optimal value, and every realised value lies within the
\* range of the seed, if any, and of the optimal values so far.
ConvexityBound ==
    /\ result.kind = "returned"
    /\ \A t \in 2..Len(values) : \A j \in 1..Len(values[t]) :
          Between(result.value[t][j], result.value[t - 1][j], values[t][j])
    /\ \A t \in 1..Len(values) : \A j \in 1..Len(values[t]) :
          WithinRange(result.value[t][j], SeedAndOptimaUpTo(t, j))

AlphaInUnitInterval == Leq(Zero, alpha) /\ Leq(alpha, One)

\* C22 as claimed: for alpha in [0, 1] and a series without missing values,
\* whatever the seed, every R[t], t > 0, lies between R[t-1] and O[t], and
\* every R[t] lies within the range of O[0..t] and of the seed if there is
\* one.
C22_ConvexityBoundForEverySeed ==
    (Called /\ AlphaInUnitInterval /\ ~HasMissing(values)) => ConvexityBound

\* C22 as amended: for alpha in [0, 1], a series without missing values and
\* no seed or a seed without missing values, every R[t], t > 0, lies between
\* R[t-1] and O[t], and every R[t] lies within the range of O[0..t] and of
\* the seed if there is one.
C22_ConvexityBound ==
    (Called /\ AlphaInUnitInterval /\ ~HasMissing(values) /\ ~SeedHasMissing)
    => ConvexityBound

C22_Witness ==
    /\ result.kind = "returned"
    /\ alpha = Rat(1, 4)
    /\ previous_values = <<Rat(3, 1)>>
    /\ values = <<<<Rat(1, 1)>>, <<Rat(2, 1)>>, <<Rat(1, 1)>>>>
    /\ result.value = <<<<Rat(5, 2)>>, <<Rat(19, 8)>>, <<Rat(65, 32)>>>>

\* The series at the trailing index j alone.
SeriesAt(a, j) == [t \in 1..Len(a) |-> <<a[t][j]>>]

\* Element j of the seed alone, or no seed.
SeedAt(s, j) == IF s = None THEN None ELSE <<s[j]>>

\* C23: with allow_holdover=True the realised series at every trailing
\* index j is the result of memory_effect on the series at index j alone,
\* with element j of the seed; so a missing entry at one trailing index
\* changes no realised value at another.
C23_ElementwiseIndependence ==
    (Called /\ allow_holdover)
    => /\ result.kind = "returned"
       /\ \A j \in 1..Len(values[1]) :
             SeriesAt(result.value, j)
                = memory_effect(SeriesAt(values, j), SeedAt(previous_values, j),
                                alpha, allow_holdover).value

\* Element j of the series is missing up to t = k - 1 and present at t = k,
\* for a k > 0 (the model counts the time steps from 1).
FirstPresentAt(a, j, k) ==
    /\ k \in 2..Len(a)
    /\ \A u \in 1..k - 1 : Missing(a[u][j])
    /\ ~Missing(a[k][j])

\* C24: with allow_holdover=True and no seed, where O[0..k-1] are missing
\* and O[k] is the first present optimal value, R[0..k-1] are missing and
\* R[k] = O[k] unweighted, and the recursion goes on from R[k].
C24_LeadingGaps ==
    (Called /\ allow_holdover /\ previous_values = None)
    => /\ result.kind = "returned"
       /\ \A j \in 1..Len(values[1]) : \A k \in 1..Len(values) :
             FirstPresentAt(values, j, k)
             => /\ \A u \in 1..k - 1 : Missing(result.value[u][j])
                /\ result.value[k][j] = values[k][j]
                /\ \A t \in k + 1..Len(values) :
                      /\ ~Missing(result.value[t][j])
                      /\ result.value[t][j]
                            = HoldoverTable(result.value[t - 1][j], values[t][j], alpha)

C24_Witness ==
    /\ result.kind = "returned"
    /\ allow_holdover
    /\ previous_values = None
    /\ alpha = Rat(1, 4)
    /\ values = <<<<NaN>>, <<Rat(2, 1)>>, <<Rat(3, 1)>>>>
    /\ FirstPresentAt(values, 1, 2)
    /\ result.value = <<<<NaN>>, <<Rat(2, 1)>>, <<Rat(9, 4)>>>>

\* ------------------------------------------------------------------------
\* Further properties of the constructors
\* ------------------------------------------------------------------------

IsSubdailyPModel_JAMES == args.cls = "SubdailyPModel_JAMES"

\* The series `name` has been filled to the subdaily timescale from `anchor`
\* before the call at position i.
FilledBefore(i, name, anchor) ==
    \E h \in 1..i - 1 :
       log[h] = <<"fill_daily_to_subdaily", name, [fill_from |-> anchor]>>

\* C25: in SubdailyPModel_JAMES memory_effect is applied to vcmax25_opt and
\* jmax25_opt only, in that order, without a seed and with the alpha and
\* the allow_holdover of the constructor; xi is never filtered; the daily
\* optimal xi, ca and gammastar are filled forward from midnight and the
\* subdaily ci is computed from those three fills and the subdaily VPD of
\* env; the realised vcmax25 and jmax25 are filled from the fill_from of the
\* caller.
C25_LegacyVariantKeepsXiFast ==
    IsSubdailyPModel_JAMES
    => /\ \A i \in CallsOf("memory_effect") :
             /\ log[i][2] \in {"vcmax25_opt", "jmax25_opt"}
             /\ log[i][3] = [alpha |-> args.alpha,
                             allow_holdover |-> args.allow_holdover]
       /\ FilteredArrays \in {<<>>, <<"vcmax25_opt">>, <<"vcmax25_opt", "jmax25_opt">>}
       /\ \A i \in CallsOf("fill_daily_to_subdaily") :
             IF log[i][2] \in {"gammastar", "xi", "ca"}
             THEN log[i][3].fill_from = timedelta64(0, "h")
             ELSE /\ log[i][2] \in {"vcmax25_real", "jmax25_real"}
                  /\ log[i][3].fill_from = args.fill_from
                  /\ FilteredArrays = <<"vcmax25_opt", "jmax25_opt">>
       /\ \A i \in CallsOf("subdaily_ci") :
             /\ log[i][2] = "env.vpd"
             /\ log[i][3] = [xi |-> "subdaily_xi", ca |-> "subdaily_ca",
                             gammastar |-> "subdaily_gammastar"]
             /\ \A name \in {"gammastar", "xi", "ca"} :
                   FilledBefore(i, name, timedelta64(0, "h"))
       /\ pc = "done"
          => /\ Cardinality(CallsOf("subdaily_ci")) = 1
             /\ Cardinality(CallsOf("fill_daily_to_subdaily")) = 5
             /\ \A name \in {"vcmax25_real", "jmax25_real"} :
                   FilledBefore(Len(log), name, args.fill_from)

C25_Witness ==
    /\ IsSubdailyPModel_JAMES
    /\ pc = "done"
    /\ args.fill_from = timedelta64(12, "h")
    /\ args.allow_holdover
    /\ HasMissing(optimal.vcmax25)
    /\ FilteredArrays = <<"vcmax25_opt", "jmax25_opt">>
    /\ CallsOf("subdaily_ci") # {}
    /\ FilledBefore(Len(log), "xi", timedelta64(0, "h"))
    /\ FilledBefore(Len(log), "jmax25_real", timedelta64(12, "h"))

\* Element j of the seed is missing.
SeedMissingAt(j) == previous_values # None /\ Missing(previous_values[j])

\* Once element j of R[t] is present, it is present in every later R[u].
PresentValuesKept ==
    \A j \in 1..Len(values[1]) : \A t \in 1..Len(values) : \A u \in t + 1..Len(values) :
       ~Missing(result.value[t][j]) => ~Missing(result.value[u][j])

\* No optimal value of element j is present up to time t.
NoOptimumYet(t, j) == \A u \in 1..t : Missing(values[u][j])

\* C26: with allow_holdover=True, for every input, once a realised value is
\* present every later one is present, and a realised value is missing only
\* while no optimal value has been present.
C26_MissingOnlyBeforeFirstPresent ==
    (Called /\ allow_holdover)
    => /\ result.kind = "returned"
       /\ PresentValuesKept
       /\ \A j \in 1..Len(values[1]) : \A t \in 1..Len(values) :
             Missing(result.value[t][j]) => NoOptimumYet(t, j)

MissingValuesError ==
    <<"ValueError", "Missing values in data passed to memory_effect">>

\* C27 as claimed: a call with allow_holdover=False that returns has no
\* missing entry in its result, for every series and every seed; a seed
\* with a missing entry is rejected as a missing entry in values is.
C27_NoMissingOutputForEverySeed ==
    (Called /\ ~allow_holdover)
    => /\ result.kind = "returned" => ~HasMissing(result.value)
       /\ (HasMissing(values) \/ SeedHasMissing)
          => (result.kind = "raised" /\ result.error = MissingValuesError)

\* C27 as amended: a call with allow_holdover=False is rejected exactly when
\* values has a missing entry; the seed is not inspected. A call that
\* returns has no missing entry in its result when no seed is given or the
\* seed has no missing entry, and where an element of the seed is missing
\* that element, and no other, is missing in every entry of the result.
C27_NoMissingOutputWithoutHoldover ==
    (Called /\ ~allow_holdover)
    => /\ HasMissing(values)
          => (result.kind = "raised" /\ result.error = MissingValuesError)
       /\ ~HasMissing(values)
          => /\ result.kind = "returned"
             /\ ~SeedHasMissing => ~HasMissing(result.value)
             /\ \A t \in 1..Len(values) : \A j \in 1..Len(values[t]) :
                   Missing(result.value[t][j]) <=> SeedMissingAt(j)

C27_Witness ==
    /\ result.kind = "returned"
    /\ ~allow_holdover
    /\ alpha = Rat(1, 2)
    /\ previous_values = <<NaN, Rat(2, 1)>>
    /\ values = <<<<Rat(1, 1), Rat(1, 1)>>, <<Rat(2, 1), Rat(1, 1)>>>>
    /\ result.value = <<<<NaN, Rat(3, 2)>>, <<NaN, Rat(5, 4)>>>>

\* C28: with allow_holdover=True, for a series that may have missing
\* entries and every split point, a fit of O[0..k] followed by a fit of
\* O[k+1..n] seeded with the last realised value of the first gives the
\* realised values of one fit of O[0..n], missing entries included: a
\* present seed is held over a missing O[k+1] and a missing seed lets the
\* chain restart from the first present optimal value.
C28_ChunkedFitContinuityUnderHoldover ==
    (allow_holdover /\ ChunkedFitDone)
    => /\ first_chunk.kind = "returned"
       /\ second_chunk.kind = "returned"
       /\ first_chunk.value \o second_chunk.value = result.value

\* No precondition of the construction is violated.
NoneViolated == <<>>

\* The errors of the five checks made before the daily conditions are
\* extracted, and of the two checks of the seed.
EarlyCheckErrors ==
    {CongruenceError, WindowNotSetError, UnknownOptChiError, UnknownKphioError,
     UnknownArrheniusError}

SeedCheckErrors == {SeedFillError, SeedShapeError}

\* The error of the first precondition the arguments violate, in the order
\* congruence, window, optimal chi, kphio, Arrhenius, seed with another
\* fill, shape of the seed.
FirstViolated ==
    IF args.n_datetimes # args.n_env_first_axis THEN CongruenceError
    ELSE IF ~args.include THEN WindowNotSetError
    ELSE IF ~MethodsKnown THEN FirstUnknownMethodError
    ELSE IF args.previous_realised = None THEN NoneViolated
    ELSE IF args.fill_kind # "previous" THEN SeedFillError
    ELSE IF \E i \in 1..3 : Len(args.previous_realised[i]) # expected_shape
    THEN SeedShapeError
    ELSE NoneViolated

\* C29: in a construction of SubdailyPModel that violates several
\* preconditions the error of the checks that is raised is that of the
\* first violated one in the order congruence, window, optimal chi, kphio,
\* Arrhenius, seed with a fill other than 'previous', shape of the seed.
\* The first five are raised before any step of the pipeline; the two of
\* the seed are raised only after the daily model has been fitted and
\* normalised, and are the error of a construction that got that far. No
\* construction with a violated precondition calls memory_effect or
\* completes, and every check is made before the first call of
\* memory_effect.
C29_ErrorPrecedence ==
    IsSubdailyPModel
    => /\ FirstViolated # NoneViolated
          => /\ pc # "done"
             /\ NoFilterNoFill
       /\ (pc = "raised" /\ error \in EarlyCheckErrors \cup SeedCheckErrors)
          => error = FirstViolated
       /\ (pc = "raised" /\ FirstViolated \in EarlyCheckErrors)
          => (error = FirstViolated /\ log = <<>>)
       /\ (pc = "raised" /\ FirstViolated \in SeedCheckErrors /\ DailyFitDone)
          => error = FirstViolated
       /\ (pc = "raised" /\ error \in SeedCheckErrors)
          => (DailyFitDone /\ log[Len(log)][1] = "Arrhenius")
       /\ LogHas("memory_effect")
          => /\ FirstViolated = NoneViolated
             /\ pc \notin {"start", "check_include", "validate_methods",
                           "check_previous_realised"}

C29_Witness ==
    /\ IsSubdailyPModel
    /\ pc = "raised"
    /\ error = UnknownKphioError
    /\ args.method_kphio = "nonesuch"
    /\ args.method_arrhenius = "nonesuch"
    /\ args.fill_kind = "linear"
    /\ args.previous_realised = [Seeds EXCEPT ![2] = BadSeed]
    /\ log = <<>>

\* ------------------------------------------------------------------------
\* Properties of convert_pmodel_to_subdaily
\* ------------------------------------------------------------------------

\* The constructor of SubdailyPModel has been called by a conversion.
Converted == pc \notin {"idle", "convert"} /\ conversion # <<>>

\* C30: the SubdailyPModel that convert_pmodel_to_subdaily returns is built
\* from the env, the fapar and the ppfd of the P Model and the fs_scaler of
\* the caller, with the methods of optimal chi, of Jmax limitation, of kphio
\* and of Arrhenius scaling and the reference kphio of the P Model, with the
\* alpha, the allow_holdover and the fill_kind of the caller, and with no
\* seed.
C30_ConversionPreservesSettings ==
    Converted
    => /\ args.cls = "SubdailyPModel"
       /\ args.env = conversion.pmodel.env
       /\ args.fs_scaler = conversion.fs_scaler
       /\ args.fapar = conversion.pmodel.fapar
       /\ args.ppfd = conversion.pmodel.ppfd
       /\ args.method_optchi = conversion.pmodel.method_optchi
       /\ args.method_jmaxlim = conversion.pmodel.method_jmaxlim
       /\ args.method_kphio = conversion.pmodel.method_kphio
       /\ args.reference_kphio = conversion.pmodel.kphio.reference_kphio
       /\ args.method_arrhenius = conversion.pmodel.method_arrhenius
       /\ args.alpha = conversion.alpha
       /\ args.allow_holdover = conversion.allow_holdover
       /\ args.fill_kind = conversion.fill_kind
       /\ args.previous_realised = None

=============================================================================
